---- MODULE Spec2Model ----
(***************************************************************************)
(* Verification model of the DLD -> prompt pipeline (jeongmin-na/aura):    *)
(*   - agents/master_agent.py            the stage orchestrator            *)
(*   - agents/context_validation_agent.py document structuring/validation  *)
(*   - agents/code_quality_agent.py      quality gate                      *)
(* Python floats are IEEE-754 binary64 values; they are modelled exactly   *)
(* (sign, integer significand, binary exponent) with round-to-nearest-even *)
(* after every arithmetic operation.  Python strings are sequences of      *)
(* one-character strings.                                                  *)
(***************************************************************************)
EXTENDS Integers, Sequences, FiniteSets, TLC

Max(a, b) == IF a >= b THEN a ELSE b
Min(a, b) == IF a <= b THEN a ELSE b

(***************************************************************************)
(* Unbounded naturals: little-endian sequences of limbs in base 2^14, no   *)
(* leading zero limb; <<>> is zero.                                        *)
(***************************************************************************)
LimbBits == 7 + 7
Base == 2^LimbBits

RECURSIVE BNorm(_)
BNorm(a) ==
    IF a = <<>> THEN <<>>
    ELSE IF a[Len(a)] = 0 THEN BNorm(SubSeq(a, 1, Len(a) - 1)) ELSE a

Limb(a, i) == IF i <= Len(a) THEN a[i] ELSE 0

BFromInt(n) == BNorm(<<n % Base, (n \div Base) % Base, n \div (Base * Base)>>)

RECURSIVE BAddFrom(_, _, _, _)
BAddFrom(a, b, i, c) ==
    IF i > Max(Len(a), Len(b))
    THEN (IF c = 0 THEN <<>> ELSE <<c>>)
    ELSE LET s == Limb(a, i) + Limb(b, i) + c
         IN  <<s % Base>> \o BAddFrom(a, b, i + 1, s \div Base)

BAdd(a, b) == BAddFrom(a, b, 1, 0)

RECURSIVE BSubFrom(_, _, _, _)
BSubFrom(a, b, i, c) ==
    IF i > Len(a) THEN <<>>
    ELSE LET s == a[i] - Limb(b, i) - c
         IN  IF s < 0 THEN <<s + Base>> \o BSubFrom(a, b, i + 1, 1)
                      ELSE <<s>> \o BSubFrom(a, b, i + 1, 0)

\* a - b for a >= b
BSub(a, b) == BNorm(BSubFrom(a, b, 1, 0))

RECURSIVE BCmpFrom(_, _, _)
BCmpFrom(a, b, i) ==
    IF i = 0 THEN 0
    ELSE IF a[i] > b[i] THEN 1
    ELSE IF a[i] < b[i] THEN -1
    ELSE BCmpFrom(a, b, i - 1)

\* -1, 0, 1 as a < b, a = b, a > b
BCmp(a, b) ==
    IF Len(a) > Len(b) THEN 1
    ELSE IF Len(a) < Len(b) THEN -1
    ELSE BCmpFrom(a, b, Len(a))

RECURSIVE BMulLimbFrom(_, _, _, _)
BMulLimbFrom(a, x, i, c) ==
    IF i > Len(a) THEN (IF c = 0 THEN <<>> ELSE <<c>>)
    ELSE LET p == a[i] * x + c
         IN  <<p % Base>> \o BMulLimbFrom(a, x, i + 1, p \div Base)

\* a * x for a limb x < Base
BMulLimb(a, x) == BNorm(BMulLimbFrom(a, x, 1, 0))

ZeroLimbs(q) == [i \in 1..q |-> 0]

RECURSIVE BMulFrom(_, _, _)
BMulFrom(a, b, i) ==
    IF i > Len(b) THEN <<>>
    ELSE BAdd(BNorm(ZeroLimbs(i - 1) \o BMulLimb(a, b[i])), BMulFrom(a, b, i + 1))

BMul(a, b) == BNorm(BMulFrom(a, b, 1))

\* a * 2^k
BShl(a, k) ==
    IF a = <<>> THEN <<>>
    ELSE ZeroLimbs(k \div LimbBits) \o BMulLimb(a, 2^(k % LimbBits))

\* floor(a / 2^k)
BShr(a, k) ==
    LET q == k \div LimbBits
        r == k % LimbBits
    IN  IF q >= Len(a) THEN <<>>
        ELSE BNorm([i \in 1..(Len(a) - q) |->
                      (a[i + q] \div 2^r)
                      + (Limb(a, i + q + 1) % 2^r) * 2^(LimbBits - r)])

RECURSIVE IntBitLen(_)
IntBitLen(n) == IF n = 0 THEN 0 ELSE 1 + IntBitLen(n \div 2)

BBitLen(a) == IF a = <<>> THEN 0 ELSE LimbBits * (Len(a) - 1) + IntBitLen(a[Len(a)])

\* bit i (1 = least significant) of a
BBit(a, i) == (Limb(a, ((i - 1) \div LimbBits) + 1) \div 2^((i - 1) % LimbBits)) % 2

\* one step of binary long division: bit i of n enters the remainder
BDivStep(n, d, i, st) ==
    LET r2 == BAdd(BShl(st[2], 1), BFromInt(BBit(n, i)))
    IN  IF BCmp(r2, d) >= 0
        THEN <<BAdd(BShl(st[1], 1), <<1>>), BSub(r2, d)>>
        ELSE <<BShl(st[1], 1), r2>>

\* long division over the bits hi down to lo of n, from the running
\* <<quotient, remainder>> st
RECURSIVE BDivBits(_, _, _, _, _)
BDivBits(n, d, hi, lo, st) ==
    IF hi < lo THEN st
    ELSE IF hi = lo THEN BDivStep(n, d, hi, st)
    ELSE LET mid == (hi + lo) \div 2
             st1 == BDivBits(n, d, hi, mid + 1, st)
         IN  IF Len(st1[1]) >= 0 THEN BDivBits(n, d, mid, lo, st1) ELSE st1

\* <<quotient, remainder>> of n by d
BDivMod(n, d) == BDivBits(n, d, BBitLen(n), 1, <<<<>>, <<>>>>)

(***************************************************************************)
(* IEEE-754 binary64 (Python float).  A value is (+/-) m * 2^e with m a    *)
(* natural of exactly 53 bits (normal numbers); zero is m = <<>>, e = 0.   *)
(* Every value has one representation, so = on records is == on floats.    *)
(***************************************************************************)
MantBits == 50 + 3

FZero == [neg |-> FALSE, m |-> <<>>, e |-> 0]

\* the float of an exactly representable value m * 2^e: m of <= 53 bits, or
\* 2^53 after a rounding carry
FCanon(neg, m, e) ==
    IF m = <<>> THEN FZero
    ELSE LET z == MantBits - BBitLen(m)
         IN  [neg |-> neg,
              m   |-> IF z >= 0 THEN BShl(m, z) ELSE BShr(m, -z),
              e   |-> e - z]

\* round-to-nearest, ties-to-even of the exact value m * 2^e
FRound(neg, m, e) ==
    LET L == BBitLen(m)
    IN  IF L <= MantBits THEN FCanon(neg, m, e)
        ELSE LET d    == L - MantBits
                 q    == BShr(m, d)
                 rem  == BSub(m, BShl(q, d))
                 half == BShl(<<1>>, d - 1)
                 c    == BCmp(rem, half)
                 up   == c > 0 \/ (c = 0 /\ BBit(q, 1) = 1)
             IN  FCanon(neg, IF up THEN BAdd(q, <<1>>) ELSE q, e + d)

FFromInt(n) == FCanon(n < 0, BFromInt(IF n < 0 THEN -n ELSE n), 0)

FNeg(x) == IF x.m = <<>> THEN x ELSE [x EXCEPT !.neg = ~x.neg]

FAdd(x, y) ==
    LET e  == Min(x.e, y.e)
        mx == BShl(x.m, x.e - e)
        my == BShl(y.m, y.e - e)
    IN  IF x.m = <<>> THEN y
        ELSE IF y.m = <<>> THEN x
        ELSE IF x.neg = y.neg THEN FRound(x.neg, BAdd(mx, my), e)
        ELSE IF BCmp(mx, my) >= 0 THEN FRound(x.neg, BSub(mx, my), e)
        ELSE FRound(y.neg, BSub(my, mx), e)

FSub(x, y) == FAdd(x, FNeg(y))

FMul(x, y) == FRound(x.neg # y.neg, BMul(x.m, y.m), x.e + y.e)

\* x / y for y # 0: the quotient is taken to at least 55 bits and a sticky
\* bit records a non-zero remainder, so that the rounding is exact
FDiv(x, y) ==
    IF x.m = <<>> THEN FZero
    ELSE LET k  == MantBits + 2
             qr == BDivMod(BShl(x.m, k), y.m)
             q2 == IF qr[2] = <<>> THEN BShl(qr[1], 1)
                                   ELSE BAdd(BShl(qr[1], 1), <<1>>)
         IN  FRound(x.neg # y.neg, q2, x.e - y.e - k - 1)

\* magnitude comparison of two non-zero floats
FCmpAbs(x, y) ==
    IF x.e > y.e THEN 1 ELSE IF x.e < y.e THEN -1 ELSE BCmp(x.m, y.m)

\* -1, 0, 1 as x < y, x = y, x > y
FCmp(x, y) ==
    IF x.m = <<>> THEN (IF y.m = <<>> THEN 0 ELSE IF y.neg THEN 1 ELSE -1)
    ELSE IF y.m = <<>> THEN (IF x.neg THEN -1 ELSE 1)
    ELSE IF x.neg /\ ~y.neg THEN -1
    ELSE IF ~x.neg /\ y.neg THEN 1
    ELSE IF x.neg THEN FCmpAbs(y, x) ELSE FCmpAbs(x, y)

FLt(x, y) == FCmp(x, y) < 0
FGe(x, y) == FCmp(x, y) >= 0
FGt(x, y) == FCmp(x, y) > 0
\* Python max(x, y) and min(x, y): the first argument wins a tie
FMax(x, y) == IF FGt(y, x) THEN y ELSE x
FMin(x, y) == IF FLt(y, x) THEN y ELSE x

\* the float literals of the source, as Python reads them
\* 0.01 = 0x1.47ae147ae147bp-7
F0_01 == [neg |-> FALSE, m |-> <<5243, 7864, 11796, 1310>>, e |-> -59]
\* 0.02 = 0x1.47ae147ae147bp-6
F0_02 == [neg |-> FALSE, m |-> <<5243, 7864, 11796, 1310>>, e |-> -58]
\* 0.1 = 0x1.999999999999ap-4
F0_1 == [neg |-> FALSE, m |-> <<6554, 9830, 6553, 1638>>, e |-> -56]
\* 0.15 = 0x1.3333333333333p-3
F0_15 == [neg |-> FALSE, m |-> <<13107, 3276, 13107, 1228>>, e |-> -55]
\* 0.2 = 0x1.999999999999ap-3
F0_2 == [neg |-> FALSE, m |-> <<6554, 9830, 6553, 1638>>, e |-> -55]
\* 0.25 = 0x1.0000000000000p-2
F0_25 == [neg |-> FALSE, m |-> <<0, 0, 0, 1024>>, e |-> -54]
\* 0.3 = 0x1.3333333333333p-2
F0_3 == [neg |-> FALSE, m |-> <<13107, 3276, 13107, 1228>>, e |-> -54]
\* 0.4 = 0x1.999999999999ap-2
F0_4 == [neg |-> FALSE, m |-> <<6554, 9830, 6553, 1638>>, e |-> -54]
\* 0.5 = 0x1.0000000000000p-1
F0_5 == [neg |-> FALSE, m |-> <<0, 0, 0, 1024>>, e |-> -53]
\* 0.6 = 0x1.3333333333333p-1
F0_6 == [neg |-> FALSE, m |-> <<13107, 3276, 13107, 1228>>, e |-> -53]
\* 0.7 = 0x1.6666666666666p-1
F0_7 == [neg |-> FALSE, m |-> <<9830, 6553, 9830, 1433>>, e |-> -53]
\* 0.8 = 0x1.999999999999ap-1
F0_8 == [neg |-> FALSE, m |-> <<6554, 9830, 6553, 1638>>, e |-> -53]
\* 0.9 = 0x1.ccccccccccccdp-1
F0_9 == [neg |-> FALSE, m |-> <<3277, 13107, 3276, 1843>>, e |-> -53]
\* 0.94 = 0x1.e147ae147ae14p-1
F0_94 == [neg |-> FALSE, m |-> <<11796, 1310, 1966, 1925>>, e |-> -53]
\* 0.95 = 0x1.e666666666666p-1
F0_95 == [neg |-> FALSE, m |-> <<9830, 6553, 9830, 1945>>, e |-> -53]
\* 1.0 = 0x1.0000000000000p+0
FOne == [neg |-> FALSE, m |-> <<0, 0, 0, 1024>>, e |-> -52]

\* the largest score that _calculate_overall_score gives, from the scores
\* 1.0, 0.8, 1.0, 0.9, 1.0, 1.0: 0.9400000000000001 = 0x1.e147ae147ae15p-1
MaxOverall == [neg |-> FALSE, m |-> <<11797, 1310, 1966, 1925>>, e |-> -53]

(***************************************************************************)
(* Python str: a sequence of one-character strings.                        *)
(***************************************************************************)
UpperChars == <<"A", "B", "C", "D", "E", "F", "G", "H", "I", "J", "K", "L", "M", "N", "O", "P", "Q", "R", "S", "T", "U", "V", "W", "X", "Y", "Z">>
LowerChars == <<"a", "b", "c", "d", "e", "f", "g", "h", "i", "j", "k", "l", "m", "n", "o", "p", "q", "r", "s", "t", "u", "v", "w", "x", "y", "z">>

LowerChar(c) ==
    IF \E i \in 1..Len(UpperChars) : UpperChars[i] = c
    THEN LowerChars[CHOOSE i \in 1..Len(UpperChars) : UpperChars[i] = c]
    ELSE c

\* str.lower()
lower(s) == [i \in 1..Len(s) |-> LowerChar(s[i])]

IsSpace(c) == c \in {" ", "\n", "\t"}

\* the k-th smallest number of the set S
Nth(S, k) == CHOOSE i \in S : Cardinality({j \in S : j < i}) = k - 1

\* the maximal runs of s over the positions that kept marks, in order
RunsOf(s, kept) ==
    LET starts == {i \in DOMAIN s : kept[i] /\ (i = 1 \/ ~kept[i - 1])}
        ends   == {i \in DOMAIN s : kept[i] /\ (i = Len(s) \/ ~kept[i + 1])}
    IN  [k \in 1..Cardinality(starts) |-> SubSeq(s, Nth(starts, k), Nth(ends, k))]

\* str.split(): the maximal runs of non-whitespace characters
split(s) == RunsOf(s, [i \in DOMAIN s |-> ~IsSpace(s[i])])

Range(f) == {f[i] : i \in DOMAIN f}

\* all orders in which the elements of a set can be listed
Orderings(S) == {p \in [1..Cardinality(S) -> S] : Range(p) = S}

\* re.search of a literal pattern with the (?i) flag
search(pattern, text) ==
    LET t == lower(text)
        p == lower(pattern)
    IN  \E i \in 1..(Len(t) - Len(p) + 1) : SubSeq(t, i, i + Len(p) - 1) = p

(***************************************************************************)
(* ContextValidationAgent._calculate_content_similarity                    *)
(***************************************************************************)
\* a faulty variant: the overlap is divided by the first word set alone
Overlap_calculate_content_similarity(content1, content2) ==
    LET words1 == Range(split(lower(content1)))
        words2 == Range(split(lower(content2)))
    IN  IF words1 = {} \/ words2 = {} THEN FZero
        ELSE FDiv(FFromInt(Cardinality(words1 \cap words2)),
                  FFromInt(Cardinality(words1)))

\* lines 519-531: Jaccard overlap of the lower-cased word sets
calculate_content_similarity(content1, content2) ==
    LET words1       == Range(split(lower(content1)))
        words2       == Range(split(lower(content2)))
        intersection == Cardinality(words1 \cap words2)
        union        == Cardinality(words1 \cup words2)
    IN  IF words1 = {} \/ words2 = {} THEN FZero
        ELSE IF union > 0 THEN FDiv(FFromInt(intersection), FFromInt(union))
        ELSE FZero

(***************************************************************************)
(* ContextValidationAgent: tables set by __init__                          *)
(***************************************************************************)
\* self.required_sections: the names in declaration (dict) order
required_sections == <<"system_overview", "requirements", "interfaces",
                       "performance", "security", "implementation">>

RequiredNames == Range(required_sections)

\* self.required_sections[name]["weight"]
SectionWeight(name) ==
    CASE name = "system_overview" -> F0_2
      [] name = "requirements"    -> F0_25
      [] name = "interfaces"      -> F0_2
      [] name = "performance"     -> F0_15
      [] name = "security"        -> F0_1
      [] name = "implementation"  -> F0_1

\* the pattern pairs of _verify_consistency
contradiction_patterns == <<
    <<<<"n", "o", "t", " ", "s", "u", "p", "p", "o", "r", "t", "e", "d">>, <<"s", "u", "p", "p", "o", "r", "t", "e", "d">>>>,
    <<<<"m", "a", "n", "d", "a", "t", "o", "r", "y">>, <<"o", "p", "t", "i", "o", "n", "a", "l">>>>,
    <<<<"s", "y", "n", "c", "h", "r", "o", "n", "o", "u", "s">>, <<"a", "s", "y", "n", "c", "h", "r", "o", "n", "o", "u", "s">>>> >>

DLDSection(title, content, section_type, confidence, extracted_entities) ==
    [title |-> title, content |-> content, section_type |-> section_type,
     confidence |-> confidence, extracted_entities |-> extracted_entities]

BlankLine == <<"\n", "\n">>

(***************************************************************************)
(* State                                                                   *)
(***************************************************************************)
VARIABLES
    sa, sb, sim,            \* similarity utility: the two strings, the results
    sections,               \* the extractor's candidate sections, in order
    domain_entities,        \* _extract_domain_entities: class -> found tokens
    merged,                 \* _merge_sections: the dict, in insertion order
    mi,                     \* _merge_sections: index of the next section
    mstatus,                \* _merge_sections: "idle", "running", "returned", "raised"
    vresult,                \* validate_dld: the returned dict, or NoResult
    assessments,            \* validate_prompt: the six assessment scores
    quality_threshold,      \* validate_prompt: the caller's threshold
    qresult,                \* validate_prompt: the returned dict, or NoResult
    agents,                 \* MasterAgent: the sub-agents that are not None
    openai_client,          \* LLMIntegration.openai_client is set
    pipeline_state,         \* MasterAgent.pipeline_state, one dict per agent
    running,                \* the call that holds the event loop, or "none"
    pc,                     \* per call: where process_dld stands
    call,                   \* per call: the arguments of process_dld
    locals,                 \* per call: the local variables of process_dld
    stage_log,              \* per call: the stages awaited, with arguments and results
    result,                 \* per call: what process_dld returned
    status,                 \* what get_pipeline_status returned, or NoResult
    cov_sections,           \* _detect_missing_information: the sections given
    cov_info,               \* _detect_missing_information: the returned scores
    cov_prev,               \* the scores returned before the last section came
    scan_sections,          \* _verify_consistency: the sections given
    scan_result,            \* _verify_consistency: the returned dict, or NoResult
    comp_input,             \* _verify_prompt_completeness: what the prompt contains
    comp_result,            \* _verify_prompt_completeness: the assessment, or NoResult
    set_lists,              \* the process: what list(set(l)) gave for each list l so far
    document,               \* _analyze_dld_structure: the document being analysed
    runs,                   \* the agent's finished analyses: document and result
    fn_args,                \* a method called on its own: its arguments
    fn_result,              \* a method called on its own: what it returned, or NoResult
    init_status,            \* MasterAgent.initialize: "not called", "running", "returned", "raised"
    down_at,                \* MasterAgent.shutdown: the entries of its list that it has passed
    down_log                \* MasterAgent.shutdown: the shutdowns awaited, and which raised

docVars == <<sections, domain_entities, merged, mi, mstatus, vresult, set_lists>>
simVars == <<sa, sb, sim>>
qualVars == <<assessments, quality_threshold, qresult>>
orchVars == <<agents, openai_client, pipeline_state, running, pc, call, locals,
              stage_log, result, status>>
vars == <<sa, sb, sim, sections, domain_entities, merged, mi, mstatus, vresult,
          assessments, quality_threshold, qresult,
          agents, openai_client, pipeline_state, running, pc, call, locals,
          stage_log, result, status, cov_sections, cov_info, cov_prev,
          scan_sections, scan_result, comp_input, comp_result, set_lists,
          document, runs, fn_args, fn_result, init_status, down_at, down_log>>
covVars == <<cov_sections, cov_info, cov_prev>>
scanVars == <<scan_sections, scan_result>>
compVars == <<comp_input, comp_result>>
agentVars == <<document, runs>>
fnVars == <<fn_args, fn_result>>
lifeVars == <<init_status, down_at, down_log>>
lastVars == <<fnVars, lifeVars>>
laterVars == <<covVars, scanVars, compVars, agentVars, lastVars>>

NoResult == [pending |-> TRUE]

\* dict helpers over a sequence of [key, val] entries
HasKey(d, k) == \E i \in DOMAIN d : d[i].key = k
Get(d, k) == d[CHOOSE i \in DOMAIN d : d[i].key = k].val
Put(d, k, v) ==
    IF HasKey(d, k)
    THEN [i \in DOMAIN d |-> IF d[i].key = k THEN [key |-> k, val |-> v] ELSE d[i]]
    ELSE Append(d, [key |-> k, val |-> v])
Values(d) == [i \in DOMAIN d |-> d[i].val]

(***************************************************************************)
(* ContextValidationAgent._merge_sections: one iteration of the loop       *)
(***************************************************************************)
MergeAdvance ==
    /\ mi' = mi + 1
    /\ mstatus' = IF mi = Len(sections) THEN "returned" ELSE "running"
    /\ UNCHANGED <<sections, domain_entities, vresult, simVars, qualVars, orchVars, laterVars>>

\* the type is not yet a key: the section is stored under it
MergeNew ==
    /\ mstatus = "running"
    /\ ~HasKey(merged, sections[mi].section_type)
    /\ merged' = Put(merged, sections[mi].section_type, sections[mi])
    /\ UNCHANGED set_lists
    /\ MergeAdvance

\* a faulty variant of MergedSection: the lower confidence is kept
Min_MergedSection(existing, section, ents) ==
    DLDSection(
        IF Len(existing.title) > Len(section.title) THEN existing.title ELSE section.title,
        existing.content \o BlankLine \o section.content,
        existing.section_type,
        FMin(existing.confidence, section.confidence),
        ents)

\* a faulty variant of MergedSection: the confidence of the later section
\* is kept
Last_MergedSection(existing, section, ents) ==
    DLDSection(
        IF Len(existing.title) > Len(section.title) THEN existing.title ELSE section.title,
        existing.content \o BlankLine \o section.content,
        existing.section_type,
        section.confidence,
        ents)

\* a faulty variant of MergedSection: the later content replaces the stored one
Replace_MergedSection(existing, section, ents) ==
    DLDSection(
        IF Len(existing.title) > Len(section.title) THEN existing.title ELSE section.title,
        section.content,
        existing.section_type,
        FMax(existing.confidence, section.confidence),
        ents)

\* the section built at lines 503-509, the entities listed in the order ents
MergedSection(existing, section, ents) ==
    DLDSection(
        IF Len(existing.title) > Len(section.title) THEN existing.title ELSE section.title,
        existing.content \o BlankLine \o section.content,
        existing.section_type,
        FMax(existing.confidence, section.confidence),
        ents)

\* a faulty variant of ListOfSet: the order is drawn afresh at every call
Any_ListOfSet(l) == Orderings(Range(l))

\* list(set(l)): the elements of l without repetition, in an order that the
\* string hashes of the process and the order of insertion determine: any
\* order the first time, the same order whenever the same list comes again
ListOfSet(l) ==
    IF l \in DOMAIN set_lists THEN {set_lists[l]} ELSE Orderings(Range(l))

Remember(l, listed) == (l :> listed) @@ set_lists

\* the type is a key and the contents are similar: the entry is replaced by
\* the merge of the two; list(set(...)) lists the entities in some order
MergeSimilar ==
    /\ mstatus = "running"
    /\ HasKey(merged, sections[mi].section_type)
    /\ LET section  == sections[mi]
           key      == section.section_type
           existing == Get(merged, key)
       IN  /\ FGt(calculate_content_similarity(existing.content, section.content),
                  F0_7)
           /\ \E ents \in ListOfSet(existing.extracted_entities \o
                                     section.extracted_entities) :
                 /\ merged' = Put(merged, key, MergedSection(existing, section, ents))
                 /\ set_lists' = Remember(existing.extracted_entities \o
                                          section.extracted_entities, ents)
    /\ MergeAdvance

\* the type is a key and the contents differ: section._replace(...) is
\* evaluated first, and a dataclass has no _replace, so AttributeError
\* leaves _merge_sections before anything is stored
MergeAlternative ==
    /\ mstatus = "running"
    /\ HasKey(merged, sections[mi].section_type)
    /\ LET section  == sections[mi]
           existing == Get(merged, section.section_type)
       IN  ~FGt(calculate_content_similarity(existing.content, section.content),
                F0_7)
    /\ mstatus' = "raised"
    /\ UNCHANGED <<sections, domain_entities, merged, mi, vresult, set_lists, simVars, qualVars, orchVars, laterVars>>

MergeSection == MergeNew \/ MergeSimilar \/ MergeAlternative

(***************************************************************************)
(* ContextValidationAgent.validate_dld after _analyze_dld_structure        *)
(***************************************************************************)
RECURSIVE SumWeightsFrom(_, _, _)
SumWeightsFrom(names, i, acc) ==
    IF i > Len(names) THEN acc
    ELSE SumWeightsFrom(names, i + 1, FAdd(acc, SectionWeight(names[i])))

\* a faulty variant: the weight that is missing is returned as the coverage
Missing_detect_missing_information(secs, missing_sections) ==
    LET missing_weight == SumWeightsFrom(missing_sections, 1, FZero)
    IN  [missing_sections |-> missing_sections,
         missing_weight   |-> missing_weight,
         coverage_score   |-> missing_weight]

\* _detect_missing_information, for the order in which list(set) lists the
\* missing names
detect_missing_information(secs, missing_sections) ==
    LET missing_weight == SumWeightsFrom(missing_sections, 1, FZero)
    IN  [missing_sections |-> missing_sections,
         missing_weight   |-> missing_weight,
         coverage_score   |-> FSub(FOne, missing_weight)]

MissingNames(secs) == RequiredNames \ {secs[i].section_type : i \in DOMAIN secs}

Message(title) == <<"Potential contradiction in section", title>>

RECURSIVE InconsistenciesFrom(_, _)
InconsistenciesFrom(secs, i) ==
    IF i > Len(secs) THEN <<>>
    ELSE LET hits == SelectSeq(contradiction_patterns,
                         LAMBDA pr : search(pr[1], secs[i].content)
                                     /\ search(pr[2], secs[i].content))
         IN  [j \in 1..Len(hits) |-> Message(secs[i].title)]
             \o InconsistenciesFrom(secs, i + 1)

\* a faulty variant of _verify_consistency: the score is not held at zero
Unclamped_verify_consistency(secs) ==
    LET inconsistencies == InconsistenciesFrom(secs, 1)
    IN  [inconsistencies   |-> inconsistencies,
         consistency_score |->
             FSub(FOne, FMul(FFromInt(Len(inconsistencies)), F0_1))]

\* _verify_consistency
verify_consistency(secs) ==
    LET inconsistencies == InconsistenciesFrom(secs, 1)
    IN  [inconsistencies   |-> inconsistencies,
         consistency_score |->
             FMax(FZero, FSub(FOne, FMul(FFromInt(Len(inconsistencies)),
                                         F0_1)))]

\* _calculate_overall_validity
calculate_overall_validity(entities, missing_info, consistency_result) ==
    /\ FGe(missing_info.coverage_score, F0_7)
    /\ FGe(consistency_result.consistency_score, F0_7)
    /\ Cardinality(DOMAIN entities) > 0

\* _calculate_completeness_score
calculate_completeness_score(secs, entities, missing_info) ==
    LET entity_bonus  == FMin(F0_1,
                              FMul(FFromInt(Cardinality(DOMAIN entities)), F0_02))
        section_bonus == FMin(F0_1, FMul(FFromInt(Len(secs)), F0_01))
    IN  FMin(FOne, FAdd(FAdd(missing_info.coverage_score, entity_bonus), section_bonus))

\* _generate_recommendations
generate_recommendations(missing, completeness, consistency, secs) ==
    (IF missing # <<>> THEN <<<<"Add missing sections: ", missing>>>> ELSE <<>>)
    \o (IF FLt(completeness, F0_8) THEN <<"Consider adding more detailed technical specifications">> ELSE <<>>)
    \o (IF FLt(consistency, F0_8) THEN <<"Review and resolve potential inconsistencies in the document">> ELSE <<>>)
    \o (IF Len(secs) < 5 THEN <<"Consider structuring the document with clearer section headers">> ELSE <<>>)

\* validate_dld, lines 128-176: _merge_sections returned
Validate ==
    /\ mstatus = "returned"
    /\ vresult = NoResult
    /\ \E missing \in Orderings(MissingNames(Values(merged))) :
          LET secs         == Values(merged)
              missing_info == detect_missing_information(secs, missing)
              consistency  == verify_consistency(secs)
              is_valid     == calculate_overall_validity(domain_entities,
                                                         missing_info, consistency)
              completeness == calculate_completeness_score(secs, domain_entities,
                                                           missing_info)
          IN  vresult' =
                [success            |-> is_valid,
                 error              |-> "",
                 has_result         |-> TRUE,
                 is_valid           |-> is_valid,
                 coverage_score     |-> missing_info.coverage_score,
                 completeness_score |-> completeness,
                 consistency_score  |-> consistency.consistency_score,
                 missing_sections   |-> missing,
                 inconsistencies    |-> consistency.inconsistencies,
                 extracted_sections |-> secs,
                 recommendations    |-> generate_recommendations(
                     missing, completeness, consistency.consistency_score, secs)]
    /\ UNCHANGED <<sections, domain_entities, merged, mi, mstatus, set_lists, simVars, qualVars, orchVars, laterVars>>

\* validate_dld, lines 178-185: the AttributeError is caught
ValidateFault ==
    /\ mstatus = "raised"
    /\ vresult = NoResult
    /\ vresult' =
          [success            |-> FALSE,
           error              |-> "'DLDSection' object has no attribute '_replace'",
           has_result         |-> FALSE,
           is_valid           |-> FALSE,
           coverage_score     |-> FZero,
           completeness_score |-> FZero,
           consistency_score  |-> FZero,
           missing_sections   |-> <<>>,
           inconsistencies    |-> <<>>,
           extracted_sections |-> <<>>,
           recommendations    |-> <<>>]
    /\ UNCHANGED <<sections, domain_entities, merged, mi, mstatus, set_lists, simVars, qualVars, orchVars, laterVars>>

(***************************************************************************)
(* CodeQualityAgent.validate_prompt                                        *)
(***************************************************************************)
\* the weights of _calculate_overall_score, in the order of all_assessments
QualityWeights == <<F0_25, F0_25, F0_2, F0_1, F0_1, F0_1>>

RECURSIVE OverallFrom(_, _, _, _)
OverallFrom(scores, i, total_score, total_weight) ==
    IF i > Len(scores)
    THEN IF FGt(total_weight, FZero) THEN FDiv(total_score, total_weight) ELSE FZero
    ELSE OverallFrom(scores, i + 1,
                     FAdd(total_score, FMul(scores[i], QualityWeights[i])),
                     FAdd(total_weight, QualityWeights[i]))

\* a faulty variant: the weighted mean is divided once more, by the first weight
Twice_calculate_overall_score(scores) ==
    IF scores = <<>> THEN FZero
    ELSE FDiv(OverallFrom(scores, 1, FZero, FZero), QualityWeights[1])

\* _calculate_overall_score over the scores of the assessments
calculate_overall_score(scores) ==
    IF scores = <<>> THEN FZero ELSE OverallFrom(scores, 1, FZero, FZero)

\* a faulty variant of QualityResult: a score equal to the threshold fails
Strict_QualityResult(overall_score, threshold) ==
    [success           |-> TRUE,
     quality_score     |-> overall_score,
     validation_result |-> [overall_score |-> overall_score,
                            is_valid      |-> FGt(overall_score, threshold)]]

\* the dict that validate_prompt returns for an overall score (lines 184-216)
QualityResult(overall_score, threshold) ==
    [success           |-> TRUE,
     quality_score     |-> overall_score,
     validation_result |-> [overall_score |-> overall_score,
                            is_valid      |-> FGe(overall_score, threshold)]]

\* validate_prompt, from the scores that the six assessments gave
ValidatePrompt ==
    /\ assessments # <<>>
    /\ qresult = NoResult
    /\ qresult' = QualityResult(calculate_overall_score(assessments), quality_threshold)
    /\ UNCHANGED <<assessments, quality_threshold, simVars, docVars, orchVars, laterVars>>

(***************************************************************************)
(* MasterAgent: the sub-agents as process_dld sees them.  A document, a    *)
(* prompt and a message stand for their text; a message is the sequence    *)
(* of its formatted parts; times are left out.                             *)
(***************************************************************************)
Calls == {"A", "B"}

AgentNames ==
    {"context_validation_agent", "prompt_generator_agent", "code_quality_agent",
     "llm_integration", "prompt_output_agent", "feedback_loop"}

None == [none |-> TRUE]
NotCalled == [called |-> FALSE]
EmptyDict == <<>>

SetItem(d, k, v) == (k :> v) @@ d

\* str(e) of the AttributeError for a sub-agent that is still None
AttributeError(method) ==
    <<"'NoneType' object has no attribute '", method, "'">>

\* str(e) of the KeyError for a key that pipeline_state does not hold
KeyError(k) == <<"'", k, "'">>

\* validate_dld: a complete and a brief document are valid, a sparse one is
\* not (coverage below 0.7)
validate_dld(dld_content, project_path) ==
    [success       |-> dld_content \in {"complete", "brief"},
     validated_dld |-> [original_content |-> dld_content]]

\* generate_prompt, lines 148-208; raises: a step of the pipeline raises
generate_prompt(validated_dld, project_path, output_format, raises) ==
    IF raises
    THEN [success |-> FALSE,
          error   |-> <<"generation step failed">>]
    ELSE [success          |-> TRUE,
          generated_prompt |-> [dld           |-> validated_dld.original_content,
                                output_format |-> output_format,
                                optimized     |-> FALSE],
          metrics          |-> [sections_processed |-> validated_dld.original_content]]

\* what _calculate_overall_score gives for the prompt of a document: every
\* assessment of a complete document scores its largest, of a brief one 0.5
OverallScoreOf(generated_prompt) ==
    IF generated_prompt.dld = "complete" THEN MaxOverall ELSE F0_5

\* validate_prompt, lines 143-216; raises: an assessment raises
validate_prompt(generated_prompt, dld_context, threshold, raises) ==
    IF raises
    THEN [success           |-> FALSE,
          error             |-> <<"assessment failed">>,
          quality_score     |-> FZero,
          validation_result |-> None]
    ELSE QualityResult(OverallScoreOf(generated_prompt), threshold)

\* optimize_prompt, lines 147-190; raises: the request to the model fails
optimize_prompt(base_prompt, quality_feedback, client, raises) ==
    IF ~client
    THEN [success          |-> FALSE,
          error            |-> <<"OpenAI client not initialized">>,
          optimized_prompt |-> base_prompt]
    ELSE IF raises
    THEN [success          |-> FALSE,
          error            |-> <<"request failed">>,
          optimized_prompt |-> base_prompt]
    ELSE [success          |-> TRUE,
          optimized_prompt |-> [base_prompt EXCEPT !.optimized = TRUE]]

\* process_output, lines 137-180; raises: a processing step raises
process_output(optimized_prompt, output_format, validation_results, raises) ==
    IF raises
    THEN [success      |-> FALSE,
          error        |-> <<"output step failed">>,
          final_prompt |-> optimized_prompt]
    ELSE [success      |-> TRUE,
          final_prompt |-> [prompt        |-> optimized_prompt,
                            formatted_for |-> output_format],
          metadata     |-> [quality_score |-> validation_results.quality_score]]

\* FeedbackLoop.analyze_performance
analyze_performance(state, execution_metrics) ==
    [success |-> TRUE, stages_seen |-> DOMAIN state]

\* a faulty variant of create_error_response: the message is dropped
Silent_create_error_response(error_message, context) ==
    [success            |-> FALSE,
     error_message      |-> <<>>,
     quality_score      |-> FZero,
     validation_results |-> context]

\* _create_error_response, lines 297-305
create_error_response(error_message, context) ==
    [success            |-> FALSE,
     error_message      |-> error_message,
     quality_score      |-> FZero,
     validation_results |-> context]

\* a faulty variant of BelowThreshold: the gate never closes
Open_BelowThreshold(quality_result, threshold) == FALSE

\* line 171: the quality gate
BelowThreshold(quality_result, threshold) ==
    FLt(quality_result.quality_score, threshold)

(***************************************************************************)
(* MasterAgent.initialize and MasterAgent.process_dld.  The stages of one  *)
(* call run without suspension, except that optimize_prompt waits for the  *)
(* model's reply when there is a client; another call may run meanwhile.   *)
(***************************************************************************)
\* initialize, lines 44-84, awaited before any call; LLMIntegration.initialize
\* creates the client when the configuration has an API key
initialize ==
    /\ agents = {}
    /\ \A c \in Calls : pc[c] = "idle"
    /\ agents' = AgentNames
    /\ \E api_key \in BOOLEAN : openai_client' = api_key
    /\ UNCHANGED <<pipeline_state, running, pc, call, locals, stage_log, result,
                   status, simVars, docVars, qualVars, laterVars>>

\* a faulty variant of Goto: the call stays at the stage it is in
Retry_Goto(c, stage) ==
    /\ UNCHANGED pc
    /\ UNCHANGED <<running, result>>

Goto(c, stage) ==
    /\ pc' = [pc EXCEPT ![c] = stage]
    /\ UNCHANGED <<running, result>>

\* return from process_dld
Return(c, r) ==
    /\ result' = [result EXCEPT ![c] = r]
    /\ pc' = [pc EXCEPT ![c] = "done"]
    /\ running' = "none"

\* a faulty variant of Raise: the exception leaves process_dld
Escape_Raise(c, message) ==
    /\ pc' = [pc EXCEPT ![c] = "raised"]
    /\ running' = "none"
    /\ UNCHANGED result

\* an exception inside the try block: lines 225-237
Raise(c, message) ==
    Return(c, create_error_response(message, EmptyDict))

\* the stage was awaited with these arguments and returned r
Logged(c, stage, args, r) ==
    stage_log' = [stage_log EXCEPT
                     ![c] = Append(@, [stage |-> stage, args |-> args, result |-> r])]

\* a faulty variant of Assign: the stage also resets the output format
Reset_Assign(c, name, r) ==
    /\ locals' = [locals EXCEPT ![c] = SetItem(@, name, r)]
    /\ pipeline_state' = SetItem(SetItem(pipeline_state, name, r),
                                 "output_format", "generic")

Assign(c, name, r) ==
    /\ locals' = [locals EXCEPT ![c] = SetItem(@, name, r)]
    /\ pipeline_state' = SetItem(pipeline_state, name, r)

NothingDone == UNCHANGED <<locals, pipeline_state, stage_log>>

Fixed == UNCHANGED <<agents, openai_client, call, status, simVars, docVars, qualVars, laterVars>>

\* lines 127-138: the call starts and replaces the agent's pipeline_state
Begin(c) ==
    /\ running = "none"
    /\ pc[c] = "idle"
    /\ \E dld_content \in {"complete", "brief", "sparse"},
          output_format \in {"cursor_ai", "generic"},
          threshold \in {FZero, F0_8},
          include_feedback \in BOOLEAN,
          fault \in {"none", "generation", "quality", "llm", "output", "feedback"} :
          /\ call' = [call EXCEPT ![c] =
                        [dld_content       |-> dld_content,
                         project_path      |-> None,
                         output_format     |-> output_format,
                         quality_threshold |-> threshold,
                         include_feedback  |-> include_feedback,
                         fault             |-> fault]]
          /\ pipeline_state' =
                [dld_content       |-> dld_content,
                 project_path      |-> None,
                 output_format     |-> output_format,
                 quality_threshold |-> threshold,
                 include_feedback  |-> include_feedback]
    /\ running' = c
    /\ pc' = [pc EXCEPT ![c] = "validation"]
    /\ UNCHANGED <<agents, openai_client, locals, stage_log, result,
                   status, simVars, docVars, qualVars, laterVars>>

\* stage 1, lines 142-151 and 239-246
ContextValidation(c) ==
    /\ running = c /\ pc[c] = "validation"
    /\ IF "context_validation_agent" \notin agents
       THEN Raise(c, AttributeError("validate_dld")) /\ NothingDone
       ELSE LET args == [dld_content  |-> pipeline_state["dld_content"],
                         project_path |-> pipeline_state["project_path"]]
                r    == validate_dld(args.dld_content, args.project_path)
            IN  /\ Logged(c, "validation", args, r)
                /\ Assign(c, "validation_result", r)
                /\ IF ~r.success
                   THEN Return(c, create_error_response(
                                      <<"Context validation failed">>, r))
                   ELSE Goto(c, "generation")
    /\ Fixed

\* stage 2, lines 154-163 and 248-256
PromptGeneration(c) ==
    /\ running = c /\ pc[c] = "generation"
    /\ IF "prompt_generator_agent" \notin agents
       THEN Raise(c, AttributeError("generate_prompt")) /\ NothingDone
       ELSE LET args == [validated_dld |-> pipeline_state["validation_result"].validated_dld,
                         project_path  |-> pipeline_state["project_path"],
                         output_format |-> pipeline_state["output_format"]]
                r    == generate_prompt(args.validated_dld, args.project_path,
                                        args.output_format,
                                        call[c].fault = "generation")
            IN  /\ Logged(c, "generation", args, r)
                /\ Assign(c, "generation_result", r)
                /\ IF ~r.success
                   THEN Return(c, create_error_response(
                                      <<"Prompt generation failed">>, r))
                   ELSE Goto(c, "quality")
    /\ Fixed

\* stage 3, lines 166-175 and 258-266; the gate compares the local
\* quality_threshold
QualityAssurance(c) ==
    /\ running = c /\ pc[c] = "quality"
    /\ IF "code_quality_agent" \notin agents
       THEN Raise(c, AttributeError("validate_prompt")) /\ NothingDone
       ELSE LET args == [generated_prompt  |-> pipeline_state["generation_result"].generated_prompt,
                         dld_context       |-> pipeline_state["validation_result"].validated_dld,
                         quality_threshold |-> pipeline_state["quality_threshold"]]
                r    == validate_prompt(args.generated_prompt, args.dld_context,
                                        args.quality_threshold,
                                        call[c].fault = "quality")
            IN  /\ Logged(c, "quality", args, r)
                /\ Assign(c, "quality_result", r)
                /\ IF BelowThreshold(r, call[c].quality_threshold)
                   THEN Return(c, create_error_response(
                                      <<"Quality threshold not met: ", r.quality_score,
                                        " < ", call[c].quality_threshold>>, r))
                   ELSE Goto(c, "llm")
    /\ Fixed

\* stage 4, lines 178-179 and 268-276, up to the request to the model; with
\* no client optimize_prompt returns at once (lines 147-152)
LLMIntegration(c) ==
    /\ running = c /\ pc[c] = "llm"
    /\ IF "llm_integration" \notin agents
       THEN Raise(c, AttributeError("optimize_prompt")) /\ NothingDone
       ELSE LET args == [base_prompt      |-> pipeline_state["generation_result"].generated_prompt,
                         quality_feedback |-> pipeline_state["quality_result"]]
            IN  IF openai_client
                THEN /\ locals' = [locals EXCEPT ![c] = SetItem(@, "optimize_prompt", args)]
                     /\ pc' = [pc EXCEPT ![c] = "llm_wait"]
                     /\ running' = "none"
                     /\ UNCHANGED <<pipeline_state, stage_log, result>>
                ELSE LET r == optimize_prompt(args.base_prompt, args.quality_feedback,
                                              FALSE, FALSE)
                     IN  /\ Logged(c, "llm", args, r)
                         /\ Assign(c, "llm_result", r)
                         /\ Goto(c, "output")
    /\ Fixed

\* stage 4, the model replied or the request failed: optimize_prompt
\* returns and line 180 stores its result in the agent's pipeline_state
LLMReturn(c) ==
    /\ running = "none" /\ pc[c] = "llm_wait"
    /\ LET args == locals[c]["optimize_prompt"]
           r    == optimize_prompt(args.base_prompt, args.quality_feedback,
                                   TRUE, call[c].fault = "llm")
       IN  /\ Logged(c, "llm", args, r)
           /\ Assign(c, "llm_result", r)
    /\ pc' = [pc EXCEPT ![c] = "output"]
    /\ running' = c
    /\ UNCHANGED result
    /\ Fixed

\* lines 197-223: the result of a call that passed every stage
CompiledResult(c, loc, state) ==
    LET r == [success            |-> TRUE,
              prompt             |-> loc["output_result"].final_prompt,
              quality_score      |-> loc["quality_result"].quality_score,
              validation_results |-> loc["validation_result"],
              generation_metrics |-> loc["generation_result"].metrics,
              pipeline_state     |-> state]
    IN  IF "feedback_result" \in DOMAIN loc
        THEN SetItem(r, "feedback_metrics", loc["feedback_result"])
        ELSE r

\* stage 5, lines 184-187 and 278-286, and without feedback lines 197-223
OutputProcessing(c) ==
    /\ running = c /\ pc[c] = "output"
    /\ IF "prompt_output_agent" \notin agents
       THEN Raise(c, AttributeError("process_output")) /\ NothingDone
       ELSE IF "llm_result" \notin DOMAIN pipeline_state
       THEN Raise(c, KeyError("llm_result")) /\ NothingDone
       ELSE IF "quality_result" \notin DOMAIN pipeline_state
       THEN Raise(c, KeyError("quality_result")) /\ NothingDone
       ELSE LET args == [optimized_prompt   |-> pipeline_state["llm_result"].optimized_prompt,
                         output_format      |-> pipeline_state["output_format"],
                         validation_results |-> pipeline_state["quality_result"]]
                r    == process_output(args.optimized_prompt, args.output_format,
                                       args.validation_results,
                                       call[c].fault = "output")
            IN  /\ Logged(c, "output", args, r)
                /\ Assign(c, "output_result", r)
                /\ IF call[c].include_feedback
                   THEN Goto(c, "feedback")
                   ELSE Return(c, CompiledResult(c, locals'[c], pipeline_state'))
    /\ Fixed

\* stage 6, lines 190-195 and 288-295, and lines 197-223
FeedbackLoop(c) ==
    /\ running = c /\ pc[c] = "feedback"
    /\ IF "feedback_loop" \notin agents
       THEN Raise(c, AttributeError("analyze_performance")) /\ NothingDone
       ELSE IF call[c].fault = "feedback"
       THEN Raise(c, <<"analysis failed">>) /\ NothingDone
       ELSE LET args == [pipeline_state |-> pipeline_state]
                r    == analyze_performance(args.pipeline_state, EmptyDict)
            IN  /\ Logged(c, "feedback", args, r)
                /\ Assign(c, "feedback_result", r)
                /\ Return(c, CompiledResult(c, locals'[c], pipeline_state'))
    /\ Fixed

process_dld(c) ==
    \/ Begin(c)
    \/ ContextValidation(c)
    \/ PromptGeneration(c)
    \/ QualityAssurance(c)
    \/ LLMIntegration(c)
    \/ LLMReturn(c)
    \/ OutputProcessing(c)
    \/ FeedbackLoop(c)

(***************************************************************************)
(* Inputs.  A document enters as the candidate sections that the three     *)
(* extraction strategies produced (header 0.8, keyword 0.6, chunk 0.4)     *)
(* and the entity classes found in its text.                               *)
(***************************************************************************)
MaxSections == 3
MaxStrLenA == 3
MaxStrLenB == 2

\* sections of one type with similar and with different content, one of
\* another required type, one of no required type
Catalog == {
    DLDSection(<<"R", "e", "q">>, <<"a", " ", "b", " ", "c">>, "requirements", F0_8, <<"AMF">>),
    DLDSection(<<"E", "x", "t", "r", "a", "c", "t", "e", "d", " ", "R", "e", "q", "u", "i", "r", "e", "m", "e", "n", "t", "s">>, <<"A", " ", "b", " ", "c", " ", "d">>, "requirements", F0_6, <<"UPF">>),
    DLDSection(<<"R", "q", "2">>, <<"a", " ", "b", " ", "c", " ", "d", " ", "e">>, "requirements", F0_6, <<"AMF">>),
    DLDSection(<<"S", "e", "c", "t", "i", "o", "n", " ", "1">>, <<"x", " ", "y">>, "requirements", F0_4, <<>>),
    DLDSection(<<"S", "e", "c">>, <<"a", " ", "b", " ", "c">>, "security", F0_8, <<"AMF">>),
    DLDSection(<<"G", "e", "n">>, <<"x", " ", "y">>, "general", F0_4, <<>>) }

SeqsUpTo(S, n) == UNION {[1..k -> S] : k \in 0..n}

BaseTitle(t) ==
    CASE
           t = "system_overview" -> <<"O", "v", "e", "r", "v", "i", "e", "w">>
        [] t = "requirements" -> <<"R", "e", "q", "u", "i", "r", "e", "m", "e", "n", "t", "s">>
        [] t = "interfaces" -> <<"I", "n", "t", "e", "r", "f", "a", "c", "e", "s">>
        [] t = "performance" -> <<"P", "e", "r", "f", "o", "r", "m", "a", "n", "c", "e">>
        [] t = "security" -> <<"S", "e", "c", "u", "r", "i", "t", "y">>
        [] t = "implementation" -> <<"D", "e", "p", "l", "o", "y", "m", "e", "n", "t">>

BaseContent(t) ==
    CASE
           t = "system_overview" -> <<"s", "y", "s", "t", "e", "m", " ", "t", "o", "p", "o", "l", "o", "g", "y">>
        [] t = "requirements" -> <<"r", "e", "q", "u", "i", "r", "e", "m", "e", "n", "t", "s", " ", "c", "o", "n", "s", "t", "r", "a", "i", "n", "t", "s">>
        [] t = "interfaces" -> <<"i", "n", "t", "e", "r", "f", "a", "c", "e", " ", "p", "r", "o", "t", "o", "c", "o", "l">>
        [] t = "performance" -> <<"l", "a", "t", "e", "n", "c", "y", " ", "t", "h", "r", "o", "u", "g", "h", "p", "u", "t">>
        [] t = "security" -> <<"e", "n", "c", "r", "y", "p", "t", "i", "o", "n", " ", "a", "c", "c", "e", "s", "s">>
        [] t = "implementation" -> <<"d", "e", "p", "l", "o", "y", "m", "e", "n", "t", " ", "c", "o", "n", "f", "i", "g", "u", "r", "a", "t", "i", "o", "n">>

Contradictory == <<" ", "m", "a", "n", "d", "a", "t", "o", "r", "y", " ", "o", "p", "t", "i", "o", "n", "a", "l", " ", "a", "s", "y", "n", "c", "h", "r", "o", "n", "o", "u", "s", " ", "n", "o", "t", " ", "s", "u", "p", "p", "o", "r", "t", "e", "d">>
HalfContradictory == <<" ", "a", "s", "y", "n", "c", "h", "r", "o", "n", "o", "u", "s">>
Unrelated == <<"o", "t", "h", "e", "r", " ", "w", "o", "r", "d", "s">>

\* the header section of a type; contra = 2: all three pattern pairs occur
\* in it, contra = 1: only "asynchronous" does
HeaderSection(t, contra) ==
    DLDSection(BaseTitle(t),
               BaseContent(t) \o (CASE contra = 0 -> <<>>
                                    [] contra = 1 -> HalfContradictory
                                    [] contra = 2 -> Contradictory),
               t, F0_8, <<>>)

\* the keyword section of a type: the same lines again, or other lines
KeywordSection(t, same) ==
    DLDSection(<<"E", "x", "t", "r", "a", "c", "t", "e", "d", " ">> \o BaseTitle(t),
               IF same THEN BaseContent(t) ELSE Unrelated, t, F0_6, <<>>)

\* one header section per type of T in declaration order, the first n of
\* them contradictory, then the keyword sections of the types of K
DocumentSections(T, n, K, same) ==
    LET names == SelectSeq(required_sections, LAMBDA t : t \in T)
        extra == SelectSeq(names, LAMBDA t : t \in K)
    IN  [i \in 1..Len(names) |-> HeaderSection(names[i], IF i <= n THEN 2 ELSE 0)]
        \o [i \in 1..Len(extra) |-> KeywordSection(extra[i], same)]

NoEntities == [c \in {} |-> <<>>]
SomeEntities == [c \in {"network_functions"} |-> <<"AMF">>]

\* type sets around the coverage threshold: 1.0, 0.65, 0.75, 0.70
ThresholdTypeSets == {
    RequiredNames,
    {"system_overview", "requirements", "interfaces"},
    {"system_overview", "requirements", "interfaces", "security"},
    {"system_overview", "requirements", "performance", "security"} }

StartMerge(secs) ==
    /\ sections = secs
    /\ merged = <<>>
    /\ mi = 1
    /\ mstatus = IF secs = <<>> THEN "returned" ELSE "running"
    /\ vresult = NoResult
    /\ set_lists = <<>>

SimIdle == sa = <<>> /\ sb = <<>> /\ sim = NoResult

DocIdle ==
    /\ sections = <<>> /\ domain_entities = NoEntities /\ merged = <<>>
    /\ mi = 1 /\ mstatus = "idle" /\ vresult = NoResult /\ set_lists = <<>>

QualIdle == assessments = <<>> /\ quality_threshold = FZero /\ qresult = NoResult

CovIdle == cov_sections = <<>> /\ cov_info = NoResult /\ cov_prev = NoResult

ScanIdle == scan_sections = <<>> /\ scan_result = NoResult

CompIdle == comp_input = NoResult /\ comp_result = NoResult

AgentIdle == document = <<>> /\ runs = <<>>

FnIdle == fn_args = NoResult /\ fn_result = NoResult

LifeIdle == init_status = "not called" /\ down_at = 0 /\ down_log = <<>>

LastIdle == FnIdle /\ LifeIdle

LaterIdle == CovIdle /\ ScanIdle /\ CompIdle /\ AgentIdle /\ LastIdle

\* MasterAgent.__init__, lines 27-42, and no call yet
OrchIdle ==
    /\ agents = {}
    /\ openai_client = FALSE
    /\ pipeline_state = EmptyDict
    /\ running = "none"
    /\ pc = [c \in Calls |-> "idle"]
    /\ call = [c \in Calls |-> NotCalled]
    /\ locals = [c \in Calls |-> EmptyDict]
    /\ stage_log = [c \in Calls |-> <<>>]
    /\ result = [c \in Calls |-> NoResult]
    /\ status = NoResult

\* _merge_sections on any list of catalogued sections
InitMerge ==
    /\ \E secs \in SeqsUpTo(Catalog, MaxSections) : StartMerge(secs)
    /\ domain_entities = NoEntities
    /\ SimIdle /\ QualIdle /\ OrchIdle /\ LaterIdle

\* validate_dld on documents of every set of section types, and on
\* documents around the validity thresholds
InitDoc ==
    /\ \/ \E T \in SUBSET RequiredNames : StartMerge(DocumentSections(T, 0, {}, TRUE))
       \/ \E T \in ThresholdTypeSets, n \in 0..2, k \in {"none", "same", "other"} :
             StartMerge(DocumentSections(T, n,
                 IF k = "none" THEN {} ELSE {"requirements"}, k = "same"))
       \/ StartMerge(<<DLDSection(<<"S", "e", "c", "t", "i", "o", "n", " ", "1">>, Contradictory, "general", F0_4, <<>>)>>)
    /\ domain_entities \in {NoEntities, SomeEntities}
    /\ SimIdle /\ QualIdle /\ OrchIdle /\ LaterIdle

NextMerge == MergeSection
SpecMerge == InitMerge /\ [][NextMerge]_vars

NextDoc == MergeSection \/ Validate \/ ValidateFault
SpecDoc == InitDoc /\ [][NextDoc]_vars

(***************************************************************************)
(* The similarity utility on its own                                       *)
(***************************************************************************)
Alphabet == {"a", "A", "b", " "}

InitSim ==
    /\ sa \in SeqsUpTo(Alphabet, MaxStrLenA)
    /\ sb \in SeqsUpTo(Alphabet, MaxStrLenB)
    /\ sim = NoResult
    /\ DocIdle /\ QualIdle /\ OrchIdle /\ LaterIdle

Similarity ==
    /\ sim = NoResult
    /\ mstatus = "idle"
    /\ sim' = [ab |-> calculate_content_similarity(sa, sb),
               ba |-> calculate_content_similarity(sb, sa),
               aa |-> calculate_content_similarity(sa, sa)]
    /\ UNCHANGED <<sa, sb, docVars, qualVars, orchVars, laterVars>>

NextSim == Similarity
SpecSim == InitSim /\ [][NextSim]_vars

(***************************************************************************)
(* validate_prompt on its own: the three heaviest assessments score 0.0,   *)
(* 0.5 or 1.0, the others 0.0 or 1.0; the threshold is a fixed one or the  *)
(* overall score itself                                                    *)
(***************************************************************************)
Scores == {FZero, F0_5, FOne}
EndScores == {FZero, FOne}
Thresholds == {FZero, F0_5, F0_8, FOne}

InitQuality ==
    /\ assessments \in {<<a, b, c, d, e, f>> :
                           a \in Scores, b \in Scores, c \in Scores,
                           d \in EndScores, e \in EndScores, f \in EndScores}
    /\ quality_threshold \in Thresholds \cup {calculate_overall_score(assessments)}
    /\ qresult = NoResult
    /\ SimIdle /\ DocIdle /\ OrchIdle /\ LaterIdle

NextQuality == ValidatePrompt
SpecQuality == InitQuality /\ [][NextQuality]_vars

(***************************************************************************)
(* The orchestrator: one MasterAgent and two calls of process_dld          *)
(***************************************************************************)
Init == SimIdle /\ DocIdle /\ QualIdle /\ OrchIdle /\ LaterIdle

\* get_pipeline_status, lines 307-320: a coroutine without an await, so it
\* runs while no call holds the event loop; the caller asks once
get_pipeline_status ==
    /\ running = "none"
    /\ status = NoResult
    /\ status' =
          [pipeline_state |-> pipeline_state,
           agents_status  |->
               [context_validation |-> "context_validation_agent" \in agents,
                prompt_generator   |-> "prompt_generator_agent" \in agents,
                code_quality       |-> "code_quality_agent" \in agents,
                llm_integration    |-> "llm_integration" \in agents,
                prompt_output      |-> "prompt_output_agent" \in agents,
                feedback_loop      |-> "feedback_loop" \in agents]]
    /\ UNCHANGED <<agents, openai_client, pipeline_state, running, pc, call,
                   locals, stage_log, result, simVars, docVars, qualVars,
                   laterVars>>

Next == initialize \/ get_pipeline_status \/ \E c \in Calls : process_dld(c)
Spec == Init /\ [][Next]_vars

(***************************************************************************)
(* Properties                                                              *)
(***************************************************************************)
StageOrder == <<"validation", "generation", "quality", "llm", "output", "feedback">>

StageNames(c) == [i \in DOMAIN stage_log[c] |-> stage_log[c][i].stage]

IsPrefix(s, t) == Len(s) <= Len(t) /\ SubSeq(t, 1, Len(s)) = s

\* the stages of a call that passes every gate
ExpectedStages(c) ==
    IF call[c].include_feedback THEN StageOrder ELSE SubSeq(StageOrder, 1, 5)

Done(c) == pc[c] = "done"

\* the stage reported failure, or the quality score is below the threshold
ReportsFailure(c, e) ==
    \/ ~e.result.success
    \/ e.stage = "quality" /\ FCmp(e.result.quality_score, call[c].quality_threshold) < 0

\* the results on which process_dld returns early
FailsGate(c, e) ==
    \/ e.stage \in {"validation", "generation"} /\ ~e.result.success
    \/ e.stage = "quality" /\ FCmp(e.result.quality_score, call[c].quality_threshold) < 0

\* the result was made from an exception: _create_error_response(str(e), {})
FromException(r) == ~r.success /\ DOMAIN r.validation_results = {}

Outcome(r) ==
    IF r.success
    THEN [success |-> TRUE, prompt |-> r.prompt, quality_score |-> r.quality_score]
    ELSE [success |-> FALSE, error_message |-> r.error_message,
          quality_score |-> r.quality_score]

\* what process_dld returns for these arguments when no other call runs
Alone(inp) ==
    IF agents = {}
    THEN create_error_response(AttributeError("validate_dld"), EmptyDict)
    ELSE
    LET v == validate_dld(inp.dld_content, inp.project_path) IN
    IF ~v.success THEN create_error_response(<<"Context validation failed">>, v) ELSE
    LET g == generate_prompt(v.validated_dld, inp.project_path, inp.output_format,
                             inp.fault = "generation") IN
    IF ~g.success THEN create_error_response(<<"Prompt generation failed">>, g) ELSE
    LET q == validate_prompt(g.generated_prompt, v.validated_dld,
                             inp.quality_threshold, inp.fault = "quality") IN
    IF FCmp(q.quality_score, inp.quality_threshold) < 0
    THEN create_error_response(<<"Quality threshold not met: ", q.quality_score,
                                 " < ", inp.quality_threshold>>, q)
    ELSE
    LET l == optimize_prompt(g.generated_prompt, q, openai_client, inp.fault = "llm")
        o == process_output(l.optimized_prompt, inp.output_format, q,
                            inp.fault = "output")
    IN  IF inp.include_feedback /\ inp.fault = "feedback"
        THEN create_error_response(<<"analysis failed">>, EmptyDict)
        ELSE [success |-> TRUE, prompt |-> o.final_prompt,
              quality_score |-> q.quality_score]

\* the arguments of a stage come from the call's own arguments and the
\* call's own earlier results
OwnArguments(c, e) ==
    LET a == e.args
        loc == locals[c]
    IN  CASE e.stage = "validation" -> a.dld_content = call[c].dld_content
          [] e.stage = "generation" ->
                /\ a.validated_dld = loc["validation_result"].validated_dld
                /\ a.output_format = call[c].output_format
          [] e.stage = "quality" ->
                /\ a.generated_prompt = loc["generation_result"].generated_prompt
                /\ a.quality_threshold = call[c].quality_threshold
          [] e.stage = "llm" ->
                /\ a.base_prompt = loc["generation_result"].generated_prompt
                /\ a.quality_feedback = loc["quality_result"]
          [] e.stage = "output" ->
                /\ a.optimized_prompt = loc["llm_result"].optimized_prompt
                /\ a.output_format = call[c].output_format
                /\ a.validation_results = loc["quality_result"]
          [] e.stage = "feedback" ->
                /\ a.pipeline_state["dld_content"] = call[c].dld_content
                /\ a.pipeline_state["output_format"] = call[c].output_format
                /\ a.pipeline_state["quality_result"] = loc["quality_result"]

C3_NeverRaises ==
    \A c \in Calls :
        /\ pc[c] # "raised"
        /\ Done(c) => /\ "success" \in DOMAIN result[c]
                       /\ result[c].success \in BOOLEAN

\* a call returned the message of an exception raised while another call
\* had replaced the pipeline state, the other that of an agent's failure
C3_Witness ==
    \E c, d \in Calls :
        /\ Done(c) /\ FromException(result[c])
        /\ result[c].error_message = KeyError("quality_result")
        /\ Done(d) /\ ~result[d].success
        /\ call[d].fault = "generation"

\* C4: the result has exactly one of payload and error: with success it
\* has the prompt and no error message, without success it has a
\* non-empty error message and no prompt.
C4_PayloadOrError ==
    \A c \in Calls :
        Done(c) =>
            IF result[c].success
            THEN /\ "prompt" \in DOMAIN result[c]
                 /\ "error_message" \notin DOMAIN result[c]
            ELSE /\ "error_message" \in DOMAIN result[c]
                 /\ result[c].error_message # <<>>
                 /\ result[c].error_message[1] # ""
                 /\ "prompt" \notin DOMAIN result[c]

\* one call returned a prompt, the other an error raised by the feedback stage
C4_Witness ==
    \E c, d \in Calls :
        /\ Done(c) /\ result[c].success
        /\ Done(d) /\ ~result[d].success
        /\ Len(stage_log[d]) = 5

\* C5: validate_prompt sets is_valid exactly when the overall score is at
\* least the threshold, equality included.
C5_PassedIffAtLeast ==
    qresult # NoResult =>
        /\ qresult.quality_score = qresult.validation_result.overall_score
        /\ qresult.validation_result.is_valid
              <=> FCmp(qresult.quality_score, quality_threshold) >= 0

\* the threshold is the overall score of mixed assessments
C5_Witness ==
    /\ qresult # NoResult
    /\ qresult.quality_score = quality_threshold
    /\ quality_threshold \notin Thresholds
    /\ qresult.validation_result.is_valid

\* exact arithmetic, for stating what a score should be
WeightPct(name) ==
    CASE name = "system_overview" -> 20
      [] name = "requirements"    -> 25
      [] name = "interfaces"      -> 20
      [] name = "performance"     -> 15
      [] name = "security"        -> 10
      [] name = "implementation"  -> 10

RECURSIVE SumPct(_)
SumPct(S) ==
    IF S = {} THEN 0
    ELSE LET x == CHOOSE x \in S : TRUE IN WeightPct(x) + SumPct(S \ {x})

TypesOf(secs) == {secs[i].section_type : i \in DOMAIN secs}

\* 100 * (1 - sum of the weights of the required types without a section)
CoveragePct(secs) == 100 - SumPct(RequiredNames \ TypesOf(secs))

WordsOf(s) == Range(split(lower(s)))

\* Jaccard overlap of the word sets above 0.7, in exact arithmetic
JaccardAbove07(c1, c2) ==
    /\ WordsOf(c1) # {} /\ WordsOf(c2) # {}
    /\ 10 * Cardinality(WordsOf(c1) \cap WordsOf(c2))
         > 7 * Cardinality(WordsOf(c1) \cup WordsOf(c2))

IsSubstring(p, t) == \E i \in 1..(Len(t) - Len(p) + 1) : SubSeq(t, i, i + Len(p) - 1) = p

\* the contents that the reconciliation policy of the design keeps: a section
\* similar to the entry of its type is appended to it, any other section of
\* a type already present is retained as a further entry
RECURSIVE ReconciledContents(_, _, _)
ReconciledContents(secs, i, acc) ==
    IF i > Len(secs) THEN acc
    ELSE LET s == secs[i]
             P == {j \in DOMAIN acc : acc[j].type = s.section_type /\ acc[j].primary}
         IN  IF P = {}
             THEN ReconciledContents(secs, i + 1,
                      Append(acc, [type |-> s.section_type, primary |-> TRUE,
                                   content |-> s.content]))
             ELSE LET j == CHOOSE j \in P : TRUE
                  IN  IF JaccardAbove07(acc[j].content, s.content)
                      THEN ReconciledContents(secs, i + 1,
                               [acc EXCEPT ![j].content = @ \o BlankLine \o s.content])
                      ELSE ReconciledContents(secs, i + 1,
                               Append(acc, [type |-> s.section_type, primary |-> FALSE,
                                            content |-> s.content]))

PairsIn(content) ==
    Cardinality({k \in DOMAIN contradiction_patterns :
                    /\ search(contradiction_patterns[k][1], content)
                    /\ search(contradiction_patterns[k][2], content)})

RECURSIVE SumPairs(_, _)
SumPairs(entries, i) ==
    IF i > Len(entries) THEN 0 ELSE PairsIn(entries[i].content) + SumPairs(entries, i + 1)

\* 10 * max(0, 1 - 0.1 * number of contradictions) of the reconciled document
ConsistencyTenths(secs) == Max(0, 10 - SumPairs(ReconciledContents(secs, 1, <<>>), 1))

Returned == vresult # NoResult

\* C6: validate_dld reports the document valid exactly when its coverage
\* is >= 0.7, its consistency is >= 0.7 and an entity class was found.
C6_ValidIffAllThree ==
    Returned =>
        (vresult.success <=> /\ CoveragePct(sections) >= 70
                             /\ ConsistencyTenths(sections) >= 7
                             /\ DOMAIN domain_entities # {})

\* C7: after merge, the content of every input section appears in some
\* output section (a section that disagrees with the entry of its type is
\* kept as an alternative entry).
C7_NoSectionLost ==
    mstatus \in {"returned", "raised"} =>
        /\ mstatus = "returned"
        /\ \A i \in DOMAIN sections :
              \E j \in DOMAIN merged : IsSubstring(sections[i].content, merged[j].val.content)

\* C8: a section whose type is present and whose Jaccard similarity to the
\* entry of that type is above 0.7 is merged into that entry: content =
\* existing, blank line, new; title = the longer; confidence = the max;
\* entities = the union; no entry is added.
C8_SimilarMerged ==
    [][ (/\ mstatus = "running"
         /\ HasKey(merged, sections[mi].section_type)
         /\ JaccardAbove07(Get(merged, sections[mi].section_type).content,
                           sections[mi].content))
        => LET new == sections[mi]
               old == Get(merged, new.section_type)
               res == Get(merged', new.section_type)
           IN  /\ mstatus' # "raised"
               /\ Len(merged') = Len(merged)
               /\ res.section_type = new.section_type
               /\ res.content = old.content \o <<"\n", "\n">> \o new.content
               /\ res.title \in {old.title, new.title}
               /\ Len(res.title) = Max(Len(old.title), Len(new.title))
               /\ FGe(res.confidence, old.confidence)
               /\ FGe(res.confidence, new.confidence)
               /\ res.confidence \in {old.confidence, new.confidence}
               /\ Range(res.extracted_entities)
                      = Range(old.extracted_entities) \cup Range(new.extracted_entities)
               /\ Len(res.extracted_entities) = Cardinality(Range(res.extracted_entities))
      ]_vars

\* a merge of two sections of different content, title length and confidence
C8_Witness ==
    /\ mstatus = "returned"
    /\ Len(sections) = 2
    /\ Len(merged) = 1
    /\ sections[1].confidence # sections[2].confidence
    /\ Len(sections[1].title) # Len(sections[2].title)
    /\ merged[1].val.content = sections[1].content \o <<"\n", "\n">> \o sections[2].content

HasWord(s) == \E i \in DOMAIN s : ~IsSpace(s[i])

\* C9 as stated: Similarity is symmetric and Similarity(a, a) = 1.0 for
\* every non-empty string a.
C9_NonEmptySelfSimilar ==
    sim # NoResult => /\ sim.ab = sim.ba
                      /\ sa # <<>> => sim.aa = FOne

\* C9 amended: Similarity is symmetric, and Similarity(a, a) = 1.0 for
\* every string a that contains at least one word (a non-whitespace
\* character); for a string without a word it is 0.0.
C9_SimilaritySymmetric ==
    sim # NoResult => /\ sim.ab = sim.ba
                      /\ HasWord(sa) => sim.aa = FOne
                      /\ ~HasWord(sa) => sim.aa = FZero

\* two different strings that share one word of two
C9_Witness ==
    /\ sim # NoResult
    /\ sa # sb
    /\ HasWord(sa) /\ HasWord(sb)
    /\ sim.ab = FDiv(FFromInt(1), FFromInt(2))
    /\ sim.aa = FOne

\* C10: the coverage score is 1 minus the summed weights of the missing
\* required types, lies in [0, 1], and is 0.25 when only a requirements
\* section is present.
C10_CoverageExact ==
    (Returned /\ vresult.has_result) =>
        /\ vresult.coverage_score
              = FDiv(FFromInt(CoveragePct(vresult.extracted_sections)), FFromInt(100))
        /\ FGe(vresult.coverage_score, FZero)
        /\ FGe(FOne, vresult.coverage_score)
        /\ TypesOf(vresult.extracted_sections) = {"requirements"}
              => vresult.coverage_score = F0_25


(***************************************************************************)
(* _detect_missing_information on its own: a list of sections, then the    *)
(* same list with one more section, scored by the same process             *)
(***************************************************************************)
TypedSection(t) == DLDSection(<<"S">>, <<"x">>, t, F0_8, <<>>)

SectionTypes == RequiredNames \cup {"general"}

\* the scores _detect_missing_information can return for a list of
\* sections: one for each order in which list(set) may list the missing names
CoverageInfos(secs) ==
    {[missing_weight |-> r.missing_weight, coverage_score |-> r.coverage_score] :
        r \in {detect_missing_information(secs, o) :
                  o \in Orderings(MissingNames(secs))}}

InitCov ==
    /\ \E T \in SUBSET RequiredNames :
          LET names == SelectSeq(required_sections, LAMBDA t : t \in T)
          IN  cov_sections = [i \in 1..Len(names) |-> TypedSection(names[i])]
    /\ cov_info \in CoverageInfos(cov_sections)
    /\ cov_prev = NoResult
    /\ SimIdle /\ DocIdle /\ QualIdle /\ OrchIdle /\ ScanIdle /\ CompIdle /\ AgentIdle /\ LastIdle

\* one more section, and _detect_missing_information again; the string
\* hashes of a process are fixed, so an equal set of missing names is listed
\* in the same order as before
AddSection ==
    /\ cov_info # NoResult /\ cov_prev = NoResult
    /\ \E t \in SectionTypes :
          LET secs == Append(cov_sections, TypedSection(t))
          IN  /\ cov_sections' = secs
              /\ cov_prev' = cov_info
              /\ IF MissingNames(secs) = MissingNames(cov_sections)
                 THEN cov_info' = cov_info
                 ELSE cov_info' \in CoverageInfos(secs)
    /\ UNCHANGED <<simVars, docVars, qualVars, orchVars, scanVars, compVars, agentVars, lastVars>>

NextCov == AddSection
SpecCov == InitCov /\ [][NextCov]_vars

AddedType == cov_sections[Len(cov_sections)].section_type
SectionsBefore == SubSeq(cov_sections, 1, Len(cov_sections) - 1)

C12_OverallInUnitInterval ==
    qresult # NoResult =>
        /\ FGe(qresult.validation_result.overall_score, FZero)
        /\ FGe(FOne, qresult.validation_result.overall_score)

\* C12: six scores of 1.0 gave the overall score 1.0, the upper end
C12_Witness ==
    /\ qresult # NoResult
    /\ assessments = <<FOne, FOne, FOne, FOne, FOne, FOne>>
    /\ qresult.validation_result.overall_score = FOne

\* the sections of a type among the first n of a list: those that the loop
\* has stored or merged under the type's key
Contributors(secs, n, key) ==
    {secs[j] : j \in {k \in 1..n : k <= Len(secs) /\ secs[k].section_type = key}}

IsMaxConfidence(v, S) ==
    /\ \E s \in S : s.confidence = v
    /\ \A s \in S : FGe(v, s.confidence)

\* C14: a merge step never lowers the confidence stored under a key, and
\* the confidence stored under a key is the highest of the sections that
\* went into it
C14_ConfidenceIsMax ==
    [][/\ \A i \in DOMAIN merged :
              /\ HasKey(merged', merged[i].key)
              /\ FGe(Get(merged', merged[i].key).confidence,
                     merged[i].val.confidence)
       /\ \A i \in DOMAIN merged' :
              IsMaxConfidence(merged'[i].val.confidence,
                              Contributors(sections', mi' - 1, merged'[i].key))]_vars

\* C14: a section of confidence 0.8 was merged into an entry of confidence
\* 0.6, which now has 0.8
C14_Witness ==
    /\ mstatus = "returned"
    /\ \E i \in DOMAIN merged :
          LET from == Contributors(sections, mi - 1, merged[i].key)
          IN  /\ Cardinality(from) > 1
              /\ sections[1].section_type = merged[i].key
              /\ sections[1].confidence = F0_6
              /\ merged[i].val.confidence = F0_8

\* C15: a merge step only appends to the content stored under a key: the
\* content stored before is a prefix of the content stored after
C15_ContentAppendOnly ==
    [][\A i \in DOMAIN merged :
          /\ HasKey(merged', merged[i].key)
          /\ IsPrefix(merged[i].val.content,
                      Get(merged', merged[i].key).content)]_vars

\* C15: the entry under a key holds the contents of two sections, the
\* first one first
C15_Witness ==
    /\ mstatus = "returned"
    /\ \E i \in DOMAIN merged :
          LET first == sections[1].content
              stored == merged[i].val.content
          IN  /\ sections[1].section_type = merged[i].key
              /\ Len(stored) > Len(first) + Len(BlankLine)
              /\ SubSeq(stored, 1, Len(first) + Len(BlankLine)) = first \o BlankLine

NoCallInProgress == \A c \in Calls : pc[c] \in {"idle", "done"}

\* C16 as stated: once no call of process_dld is in progress the agent
\* holds no pipeline state, and get_pipeline_status shows none
C16_ContextDiscarded ==
    [][(NoCallInProgress' =>
           /\ pipeline_state' = EmptyDict
           /\ (get_pipeline_status => status'.pipeline_state = EmptyDict))]_vars

PcOrder == <<"idle", "validation", "generation", "quality", "llm", "llm_wait",
             "output", "feedback", "done">>

PcRank(p) == CHOOSE i \in DOMAIN PcOrder : PcOrder[i] = p

\* C17: in one call no stage is awaited twice: every step of the call moves
\* it to a later position, and a stage that has returned, whatever its
\* result, does not appear in the call's log again
C17_NoStageTwice ==
    [][\A c \in Calls :
          /\ pc'[c] # pc[c] => PcRank(pc'[c]) > PcRank(pc[c])
          /\ stage_log'[c] # stage_log[c] =>
                /\ pc'[c] # pc[c]
                /\ Len(stage_log'[c]) = Len(stage_log[c]) + 1
                /\ SubSeq(stage_log'[c], 1, Len(stage_log[c])) = stage_log[c]
                /\ \A i \in DOMAIN stage_log[c] :
                      stage_log[c][i].stage
                          # stage_log'[c][Len(stage_log'[c])].stage]_vars

\* C17: a call ended after a stage that reported failure, after a quality
\* score below the threshold, and after a stage that raised, each stage
\* having been awaited once
C17_Witness ==
    /\ \E c \in Calls :
          /\ Done(c)
          /\ StageNames(c) = <<"validation", "generation", "quality">>
          /\ FailsGate(c, stage_log[c][3])
    /\ \E c \in Calls :
          /\ Done(c)
          /\ FromException(result[c])
          /\ call[c].fault = "feedback"
          /\ StageNames(c) = SubSeq(StageOrder, 1, 5)

\* the key under which process_dld stores the result of a stage
StageKey(stage) ==
    CASE stage = "validation" -> "validation_result"
      [] stage = "generation" -> "generation_result"
      [] stage = "quality"    -> "quality_result"
      [] stage = "llm"        -> "llm_result"
      [] stage = "output"     -> "output_result"
      [] stage = "feedback"   -> "feedback_result"

InputKeys == {"dld_content", "project_path", "output_format",
              "quality_threshold", "include_feedback"}

\* C18: a stage that returns stores its result in the pipeline state under
\* its own key and changes no other key; a step that is neither a returning
\* stage nor the start of a call changes nothing in the pipeline state
C18_StageWritesOwnKey ==
    [][/\ \A c \in Calls :
              stage_log'[c] # stage_log[c] =>
                  LET e   == stage_log'[c][Len(stage_log'[c])]
                      key == StageKey(e.stage)
                  IN  /\ key \notin InputKeys
                      /\ DOMAIN pipeline_state' = DOMAIN pipeline_state \cup {key}
                      /\ pipeline_state'[key] = e.result
                      /\ \A k \in DOMAIN pipeline_state \ {key} :
                            pipeline_state'[k] = pipeline_state[k]
       /\ pipeline_state' # pipeline_state =>
              \/ \E c \in Calls : stage_log'[c] # stage_log[c]
              \/ \E c \in Calls : pc[c] = "idle" /\ pc'[c] = "validation"]_vars

\* C18: one call ran alone through all six stages; the pipeline state
\* holds its five inputs as given and the six results under their keys
C18_Witness ==
    \E c \in Calls :
        /\ Done(c) /\ result[c].success
        /\ \A d \in Calls \ {c} : pc[d] = "idle"
        /\ DOMAIN pipeline_state = InputKeys \cup {StageKey(s) : s \in Range(StageOrder)}
        /\ \A k \in InputKeys : pipeline_state[k] = call[c][k]
        /\ \A i \in DOMAIN stage_log[c] :
              pipeline_state[StageKey(stage_log[c][i].stage)] = stage_log[c][i].result

(***************************************************************************)
(* _verify_consistency on its own: sections whose content is made of the   *)
(* six phrases of the pattern pairs                                        *)
(***************************************************************************)
Phrases == {<<"n", "o", "t", " ", "s", "u", "p", "p", "o", "r", "t", "e", "d">>,
            <<"s", "u", "p", "p", "o", "r", "t", "e", "d">>,
            <<"m", "a", "n", "d", "a", "t", "o", "r", "y">>,
            <<"o", "p", "t", "i", "o", "n", "a", "l">>,
            <<"s", "y", "n", "c", "h", "r", "o", "n", "o", "u", "s">>,
            <<"a", "s", "y", "n", "c", "h", "r", "o", "n", "o", "u", "s">>}

MaxPhrases == 2

\* the phrases of a list as sentences: "It is <phrase>. "
RECURSIVE Sentences(_)
Sentences(ps) ==
    IF ps = <<>> THEN <<>>
    ELSE <<"I", "t", " ", "i", "s", " ">> \o Head(ps) \o <<".", " ">>
         \o Sentences(Tail(ps))

ScanSection(title, ps) == DLDSection(title, Sentences(ps), "general", F0_8, <<>>)

InitScan ==
    /\ \E ps \in SeqsUpTo(Phrases, MaxPhrases), qs \in SeqsUpTo(Phrases, 1) :
          scan_sections = <<ScanSection(<<"A">>, ps), ScanSection(<<"B">>, qs)>>
    /\ scan_result = NoResult
    /\ SimIdle /\ DocIdle /\ QualIdle /\ OrchIdle /\ CovIdle /\ CompIdle /\ AgentIdle /\ LastIdle

VerifyConsistency ==
    /\ scan_sections # <<>>
    /\ scan_result = NoResult
    /\ scan_result' = verify_consistency(scan_sections)
    /\ UNCHANGED <<scan_sections, simVars, docVars, qualVars, orchVars, covVars, compVars, agentVars, lastVars>>

NextScan == VerifyConsistency
SpecScan == InitScan /\ [][NextScan]_vars

\* the places where a literal pattern matches, case-insensitively
MatchesAt(pattern, text) ==
    LET t == lower(text)
        p == lower(pattern)
    IN  {i \in 1..(Len(t) - Len(p) + 1) : SubSeq(t, i, i + Len(p) - 1) = p}

\* the text states a claim apart from its opposite: the pattern matches at
\* a place that is not inside a match of the other pattern
OccursApart(pattern, other, text) ==
    \E i \in MatchesAt(pattern, text) :
        ~\E j \in MatchesAt(other, text) :
            j <= i /\ i + Len(pattern) <= j + Len(other)

RECURSIVE ContradictionsFrom(_, _)
ContradictionsFrom(secs, i) ==
    IF i > Len(secs) THEN <<>>
    ELSE LET hits == SelectSeq(contradiction_patterns,
                         LAMBDA pr : OccursApart(pr[1], pr[2], secs[i].content)
                                     /\ OccursApart(pr[2], pr[1], secs[i].content))
         IN  [j \in 1..Len(hits) |-> Message(secs[i].title)]
             \o ContradictionsFrom(secs, i + 1)

\* C19 as stated: the scan reports a section once for each pattern pair of
\* which the section states both claims, and not for a pair of which it
\* states only the negated one ("not supported", "asynchronous")
C19_OnlyStatedContradictions ==
    scan_result # NoResult =>
        scan_result.inconsistencies = ContradictionsFrom(scan_sections, 1)

(***************************************************************************)
(* CodeQualityAgent._verify_prompt_completeness on its own.  The prompt    *)
(* is given by what the metric looks for in it: which of the four section  *)
(* names _has_section finds, how many of the reference sections            *)
(* _prompt_addresses_section finds addressed, and how many matches each    *)
(* category of domain patterns has.                                        *)
(***************************************************************************)
\* line 231
completeness_sections == <<"context", "requirements", "constraints", "task">>

\* self.domain_patterns, lines 46-78: the number of patterns in each
\* category, and the weights of line 565, in dict order
DomainPatternCounts == <<19, 4, 5>>
DomainWeights == <<F0_4, F0_3, F0_3>>

RECURSIVE DomainFrom(_, _, _)
DomainFrom(found_counts, i, total_score) ==
    IF i > Len(found_counts) THEN total_score
    ELSE LET expected_count == DomainPatternCounts[i] * 2
             category_score ==
                 FMin(FDiv(FFromInt(found_counts[i]), FFromInt(expected_count)),
                      FOne)
         IN  DomainFrom(found_counts, i + 1,
                        FAdd(total_score, FMul(category_score, DomainWeights[i])))

\* _assess_domain_coverage, lines 562-582
assess_domain_coverage(found_counts) == DomainFrom(found_counts, 1, FZero)

\* lines 234-237: 0.2 for every section name found
RECURSIVE SectionScoreFrom(_, _, _)
SectionScoreFrom(found, i, score) ==
    IF i > Len(completeness_sections) THEN score
    ELSE SectionScoreFrom(found, i + 1,
                          IF completeness_sections[i] \in found
                          THEN FAdd(score, F0_2) ELSE score)

UnboundLocalError(name) == [raised |-> "UnboundLocalError", name |-> name]

\* _verify_prompt_completeness, lines 226-282; without reference sections
\* coverage_ratio is never assigned and line 271 raises
verify_prompt_completeness(found, covered_requirements, total_requirements, found_counts) ==
    LET section_score   == SectionScoreFrom(found, 1, FZero)
        coverage_ratio  == FDiv(FFromInt(covered_requirements),
                                FFromInt(total_requirements))
        covered_score   == IF total_requirements > 0
                           THEN FAdd(section_score, FMul(coverage_ratio, F0_4))
                           ELSE section_score
        domain_coverage == assess_domain_coverage(found_counts)
        score           == FAdd(covered_score, FMul(domain_coverage, F0_2))
    IN  IF total_requirements = 0 THEN UnboundLocalError("coverage_ratio")
        ELSE [metric          |-> "completeness",
              score           |-> FMin(score, FOne),
              found_sections  |-> SelectSeq(completeness_sections,
                                            LAMBDA s : s \in found),
              coverage_ratio  |-> coverage_ratio,
              domain_coverage |-> domain_coverage]

MaxRequirements == 2

InitComp ==
    /\ \E found \in SUBSET Range(completeness_sections),
          total \in 0..MaxRequirements,
          n1 \in {0, 19, 40}, n2 \in {0, 8}, n3 \in {0, 5, 12} :
          \E covered \in 0..total :
              comp_input = [found                |-> found,
                            covered_requirements |-> covered,
                            total_requirements   |-> total,
                            found_counts         |-> <<n1, n2, n3>>]
    /\ comp_result = NoResult
    /\ SimIdle /\ DocIdle /\ QualIdle /\ OrchIdle /\ CovIdle /\ ScanIdle /\ AgentIdle /\ LastIdle

VerifyCompleteness ==
    /\ comp_input # NoResult
    /\ comp_result = NoResult
    /\ comp_result' = verify_prompt_completeness(
                          comp_input.found, comp_input.covered_requirements,
                          comp_input.total_requirements, comp_input.found_counts)
    /\ UNCHANGED <<comp_input, simVars, docVars, qualVars, orchVars, covVars, scanVars, agentVars, lastVars>>

NextComp == VerifyCompleteness
SpecComp == InitComp /\ [][NextComp]_vars

\* C20 as stated: of the completeness score the section names found make
\* up at most 0.4, the covered reference sections at most 0.4 and the
\* domain coverage at most 0.2
C20_ContributionCaps ==
    (comp_result # NoResult /\ "score" \in DOMAIN comp_result) =>
        /\ FGe(F0_4, SectionScoreFrom(comp_input.found, 1, FZero))
        /\ FGe(F0_4, FMul(comp_result.coverage_ratio, F0_4))
        /\ FGe(F0_2, FMul(comp_result.domain_coverage, F0_2))

(***************************************************************************)
(* ContextValidationAgent._analyze_dld_structure on the text of a document *)
(***************************************************************************)
\* self.required_sections[name]["keywords"], lines 48-73
SectionKeywords(name) ==
    CASE name = "system_overview" ->
           <<<<"s", "y", "s", "t", "e", "m">>,
             <<"o", "v", "e", "r", "v", "i", "e", "w">>,
             <<"a", "r", "c", "h", "i", "t", "e", "c", "t", "u", "r", "e">>,
             <<"t", "o", "p", "o", "l", "o", "g", "y">>>>
      [] name = "requirements" ->
           <<<<"r", "e", "q", "u", "i", "r", "e", "m", "e", "n", "t", "s">>,
             <<"s", "p", "e", "c", "i", "f", "i", "c", "a", "t", "i", "o", "n", "s">>,
             <<"c", "o", "n", "s", "t", "r", "a", "i", "n", "t", "s">>>>
      [] name = "interfaces" ->
           <<<<"i", "n", "t", "e", "r", "f", "a", "c", "e">>,
             <<"p", "r", "o", "t", "o", "c", "o", "l">>,
             <<"a", "p", "i">>,
             <<"c", "o", "n", "n", "e", "c", "t", "i", "v", "i", "t", "y">>>>
      [] name = "performance" ->
           <<<<"p", "e", "r", "f", "o", "r", "m", "a", "n", "c", "e">>,
             <<"k", "p", "i">>,
             <<"l", "a", "t", "e", "n", "c", "y">>,
             <<"t", "h", "r", "o", "u", "g", "h", "p", "u", "t">>,
             <<"c", "a", "p", "a", "c", "i", "t", "y">>>>
      [] name = "security" ->
           <<<<"s", "e", "c", "u", "r", "i", "t", "y">>,
             <<"a", "u", "t", "h", "e", "n", "t", "i", "c", "a", "t", "i", "o", "n">>,
             <<"e", "n", "c", "r", "y", "p", "t", "i", "o", "n">>,
             <<"a", "c", "c", "e", "s", "s">>>>
      [] name = "implementation" ->
           <<<<"i", "m", "p", "l", "e", "m", "e", "n", "t", "a", "t", "i", "o", "n">>,
             <<"d", "e", "p", "l", "o", "y", "m", "e", "n", "t">>,
             <<"c", "o", "n", "f", "i", "g", "u", "r", "a", "t", "i", "o", "n">>>>

\* f"Extracted {section_name.replace('_', ' ').title()}", line 307
KeywordTitle(name) ==
    CASE name = "system_overview" -> <<"E", "x", "t", "r", "a", "c", "t", "e", "d", " ", "S", "y", "s", "t", "e", "m", " ", "O", "v", "e", "r", "v", "i", "e", "w">>
      [] name = "requirements" -> <<"E", "x", "t", "r", "a", "c", "t", "e", "d", " ", "R", "e", "q", "u", "i", "r", "e", "m", "e", "n", "t", "s">>
      [] name = "interfaces" -> <<"E", "x", "t", "r", "a", "c", "t", "e", "d", " ", "I", "n", "t", "e", "r", "f", "a", "c", "e", "s">>
      [] name = "performance" -> <<"E", "x", "t", "r", "a", "c", "t", "e", "d", " ", "P", "e", "r", "f", "o", "r", "m", "a", "n", "c", "e">>
      [] name = "security" -> <<"E", "x", "t", "r", "a", "c", "t", "e", "d", " ", "S", "e", "c", "u", "r", "i", "t", "y">>
      [] name = "implementation" -> <<"E", "x", "t", "r", "a", "c", "t", "e", "d", " ", "I", "m", "p", "l", "e", "m", "e", "n", "t", "a", "t", "i", "o", "n">>

\* self.domain_entities, lines 76-82: the classes in dict order
entity_types == <<"network_functions", "interfaces", "protocols", "frequency_bands", "technologies">>

DomainEntities(entity_type) ==
    CASE entity_type = "network_functions" ->
           <<<<"A", "M", "F">>,
             <<"S", "M", "F">>,
             <<"U", "P", "F">>,
             <<"P", "C", "F">>,
             <<"A", "U", "S", "F">>,
             <<"U", "D", "M">>,
             <<"N", "R", "F">>,
             <<"N", "S", "S", "F">>>>
      [] entity_type = "interfaces" ->
           <<<<"N", "1">>,
             <<"N", "2">>,
             <<"N", "3">>,
             <<"N", "4">>,
             <<"N", "6">>,
             <<"N", "8">>,
             <<"N", "1", "1">>,
             <<"N", "1", "5">>,
             <<"N", "2", "2">>,
             <<"X", "n">>,
             <<"F", "1">>>>
      [] entity_type = "protocols" ->
           <<<<"N", "A", "S">>,
             <<"N", "G", "A", "P">>,
             <<"P", "F", "C", "P">>,
             <<"H", "T", "T", "P", "/", "2">>,
             <<"S", "B", "I">>,
             <<"S", "C", "T", "P">>,
             <<"G", "T", "P">>>>
      [] entity_type = "frequency_bands" ->
           <<<<"F", "R", "1">>,
             <<"F", "R", "2">>,
             <<"s", "u", "b", "6">>,
             <<"m", "m", "W", "a", "v", "e">>,
             <<"n", "1">>,
             <<"n", "3">>,
             <<"n", "7">>,
             <<"n", "2", "8">>,
             <<"n", "7", "8">>>>
      [] entity_type = "technologies" ->
           <<<<"5", "G", " ", "N", "R">>,
             <<"L", "T", "E">>,
             <<"N", "S", "A">>,
             <<"S", "A">>,
             <<"M", "I", "M", "O">>,
             <<"b", "e", "a", "m", "f", "o", "r", "m", "i", "n", "g">>,
             <<"c", "a", "r", "r", "i", "e", "r", " ", "a", "g", "g", "r", "e", "g", "a", "t", "i", "o", "n">>>>

(***************************************************************************)
(* ContextValidationAgent._analyze_dld_structure: the three extraction     *)
(* methods on the text of a document.  Documents here have no digit, so    *)
(* the pattern of technical values (line 387) finds nothing in them, and   *)
(* are shorter than chunk_size, so _split_content_into_chunks makes one    *)
(* chunk of them.                                                          *)
(***************************************************************************)
IsUpper(c) == c \in Range(UpperChars)
IsLower(c) == c \in Range(LowerChars)
IsDigit(c) == c \in {"0", "1", "2", "3", "4", "5", "6", "7", "8", "9"}
IsWordChar(c) == IsUpper(c) \/ IsLower(c) \/ IsDigit(c) \/ c = "_"

\* str.strip()
strip(s) ==
    LET kept == {i \in DOMAIN s : ~IsSpace(s[i])}
    IN  IF kept = {} THEN <<>>
        ELSE SubSeq(s, CHOOSE i \in kept : \A j \in kept : i <= j,
                       CHOOSE i \in kept : \A j \in kept : i >= j)

\* str.split('\n'): the pieces between the newlines, the empty ones too
SplitLines(s) ==
    LET breaks == {i \in DOMAIN s : s[i] = "\n"} \cup {0, Len(s) + 1}
    IN  [k \in 1..(Cardinality(breaks) - 1) |->
            SubSeq(s, Nth(breaks, k) + 1, Nth(breaks, k + 1) - 1)]

\* '\n'.join(lines)
RECURSIVE JoinLines(_)
JoinLines(lines) ==
    IF lines = <<>> THEN <<>>
    ELSE IF Len(lines) = 1 THEN lines[1]
    ELSE lines[1] \o <<"\n">> \o JoinLines(Tail(lines))

SpaceChars == {" ", "\n", "\t"}
DigitChars == {"0", "1", "2", "3", "4", "5", "6", "7", "8", "9"}

\* the number of characters from position i of s on that are in chars
RECURSIVE RunFrom(_, _, _)
RunFrom(s, i, chars) ==
    IF i <= Len(s) /\ s[i] \in chars THEN 1 + RunFrom(s, i + 1, chars) ELSE 0

\* lines 228-246: re.match of the header patterns on a stripped line, the
\* first that matches; a line holds no "\n", so the pattern of underlined
\* headers matches none
HeaderText(line) ==
    LET hashes == RunFrom(line, 1, {"#"})
        blanks == RunFrom(line, hashes + 1, SpaceChars)
        digits == RunFrom(line, 1, DigitChars)
        dot    == IF digits + 1 <= Len(line) /\ line[digits + 1] = "." THEN 1 ELSE 0
        gap    == RunFrom(line, digits + dot + 1, SpaceChars)
    IN  IF hashes >= 1 /\ blanks >= 1 /\ hashes + blanks < Len(line)
        THEN strip(SubSeq(line, hashes + blanks + 1, Len(line)))
        ELSE IF digits >= 1 /\ gap >= 1 /\ digits + dot + gap < Len(line)
        THEN strip(line)
        ELSE IF Len(line) >= 2 /\ IsUpper(line[1])
                /\ \A i \in 2..Len(line) : IsUpper(line[i]) \/ IsSpace(line[i])
        THEN strip(line)
        ELSE <<>>

\* str.count(sub): the matches counted from the left, without overlap
\* str.count(sub) from position i on: the occurrences that do not overlap,
\* taken from the left
RECURSIVE CountFrom(_, _, _)
CountFrom(sub, s, i) ==
    LET found == {j \in i..(Len(s) - Len(sub) + 1) :
                     SubSeq(s, j, j + Len(sub) - 1) = sub}
    IN  IF found = {} THEN 0
        ELSE 1 + CountFrom(sub, s, Nth(found, 1) + Len(sub))

RECURSIVE SumCounts(_, _, _)
SumCounts(keywords, s, i) ==
    IF i > Len(keywords) THEN 0
    ELSE CountFrom(lower(keywords[i]), s, 1) + SumCounts(keywords, s, i + 1)

\* a faulty variant of _classify_section_type: the last of the names with the
\* highest score is kept
Last_classify_section_type(title, content) ==
    LET text_to_analyze == lower(title \o <<" ">> \o content)
        section_scores  == [i \in DOMAIN required_sections |->
                               SumCounts(SectionKeywords(required_sections[i]),
                                         text_to_analyze, 1)]
        best == CHOOSE i \in DOMAIN section_scores :
                    /\ \A j \in DOMAIN section_scores :
                          section_scores[j] <= section_scores[i]
                    /\ \A j \in (i + 1)..Len(section_scores) :
                          section_scores[j] < section_scores[i]
    IN  IF section_scores[best] > 0 THEN required_sections[best] ELSE "general"

\* _classify_section_type, lines 342-360: max() keeps the first of the
\* names with the highest score
classify_section_type(title, content) ==
    LET text_to_analyze == lower(title \o <<" ">> \o content)
        section_scores  == [i \in DOMAIN required_sections |->
                               SumCounts(SectionKeywords(required_sections[i]),
                                         text_to_analyze, 1)]
        best == CHOOSE i \in DOMAIN section_scores :
                    /\ \A j \in DOMAIN section_scores :
                          section_scores[j] <= section_scores[i]
                    /\ \A j \in 1..(i - 1) : section_scores[j] < section_scores[i]
    IN  IF section_scores[best] > 0 THEN required_sections[best] ELSE "general"

\* the maximal runs of word characters of a text, in order
WordsIn(s) == RunsOf(s, [i \in DOMAIN s |-> IsWordChar(s[i])])

\* \b[A-Z][A-Z0-9]{2,}\b
IsAcronym(w) ==
    /\ Len(w) >= 3
    /\ IsUpper(w[1])
    /\ \A i \in 2..Len(w) : IsUpper(w[i]) \/ IsDigit(w[i])

\* \b[A-Z][a-z]+(?:[A-Z][a-z]+)*\b
IsCamelCase(w) ==
    /\ Len(w) >= 2
    /\ IsUpper(w[1])
    /\ IsLower(w[Len(w)])
    /\ \A i \in DOMAIN w : IsUpper(w[i]) \/ IsLower(w[i])
    /\ \A i \in 1..(Len(w) - 1) : IsUpper(w[i]) => IsLower(w[i + 1])

\* _extract_entities_from_text, lines 380-393: what the patterns find, in
\* the order found, before list(set(...)); both patterns are closed by \b
\* and hold word characters only, so a match is a whole word
found_entities(s) ==
    LET words == WordsIn(s)
    IN  SelectSeq(words, IsAcronym) \o SelectSeq(words, IsCamelCase)

\* a section as the extraction methods build it, its entities not yet
\* passed through list(set(...))
FoundSection(title, content, section_type, confidence) ==
    DLDSection(title, content, section_type, confidence, found_entities(content))

\* _extract_sections_by_headers, lines 236-278: the loop from line i on
RECURSIVE HeadersFrom(_, _, _, _)
HeadersFrom(lines, i, current_section, current_content) ==
    LET saved == IF current_section # <<>> /\ current_content # <<>>
                 THEN <<FoundSection(current_section, JoinLines(current_content),
                            classify_section_type(current_section,
                                                  JoinLines(current_content)),
                            F0_8)>>
                 ELSE <<>>
    IN  IF i > Len(lines) THEN saved
        ELSE LET line        == strip(lines[i])
                 header_text == HeaderText(line)
             IN  IF header_text # <<>>
                 THEN saved \o HeadersFrom(lines, i + 1, header_text, <<>>)
                 ELSE IF current_section # <<>>
                 THEN HeadersFrom(lines, i + 1, current_section,
                                  Append(current_content, line))
                 ELSE HeadersFrom(lines, i + 1, current_section, current_content)

extract_sections_by_headers(content) ==
    HeadersFrom(SplitLines(content), 1, <<>>, <<>>)

\* lines 296-299: the lines from i on in which a keyword occurs, each with
\* the three lines before and after it
RECURSIVE RelatedFrom(_, _, _)
RelatedFrom(lines, keywords, i) ==
    IF i > Len(lines) THEN <<>>
    ELSE (IF \E k \in DOMAIN keywords : search(keywords[k], lines[i])
          THEN SubSeq(lines, Max(1, i - 3), Min(Len(lines), i + 3))
          ELSE <<>>)
         \o RelatedFrom(lines, keywords, i + 1)

\* _extract_sections_by_keywords, lines 282-313: the loop from name i on
RECURSIVE KeywordsFrom(_, _)
KeywordsFrom(content, i) ==
    IF i > Len(required_sections) THEN <<>>
    ELSE LET section_name  == required_sections[i]
             related_lines == RelatedFrom(SplitLines(content),
                                          SectionKeywords(section_name), 1)
         IN  (IF related_lines # <<>>
              THEN <<FoundSection(KeywordTitle(section_name),
                                  JoinLines(related_lines), section_name, F0_6)>>
              ELSE <<>>)
             \o KeywordsFrom(content, i + 1)

extract_sections_by_keywords(content) == KeywordsFrom(content, 1)

\* re.sub(r'^\d+\.?\s*', '', line), then re.sub(r'^[#*-]+\s*', '', ...)
Cleaned(line) ==
    LET digits   == RunFrom(line, 1, DigitChars)
        dot      == IF digits >= 1 /\ digits + 1 <= Len(line)
                       /\ line[digits + 1] = "." THEN 1 ELSE 0
        gap      == IF digits >= 1 THEN RunFrom(line, digits + dot + 1, SpaceChars)
                    ELSE 0
        unnumbered == SubSeq(line, digits + dot + gap + 1, Len(line))
        marks    == RunFrom(unnumbered, 1, {"#", "*", "-"})
        blanks   == IF marks >= 1 THEN RunFrom(unnumbered, marks + 1, SpaceChars) ELSE 0
    IN  SubSeq(unnumbered, marks + blanks + 1, Len(unnumbered))

\* _extract_chunk_title, lines 553-567, from line i of the chunk on; <<>>
\* stands for None
RECURSIVE ChunkTitleFrom(_, _)
ChunkTitleFrom(lines, i) ==
    IF i > Len(lines) THEN <<>>
    ELSE LET line == strip(lines[i])
         IN  IF Len(line) > 10 /\ Len(line) < 100 /\ Len(Cleaned(line)) > 5
             THEN Cleaned(line)
             ELSE ChunkTitleFrom(lines, i + 1)

\* _extract_sections_by_content, lines 315-340, for the one chunk that
\* _split_content_into_chunks makes of a document shorter than chunk_size
extract_sections_by_content(content) ==
    LET chunk == strip(content)
        title == ChunkTitleFrom(SplitLines(chunk), 1)
    IN  IF Len(chunk) < 50 THEN <<>>
        ELSE <<FoundSection(
                   IF title # <<>> THEN title
                   ELSE <<"S", "e", "c", "t", "i", "o", "n", " ", "1">>,
                   chunk, classify_section_type(<<>>, chunk), F0_4)>>

\* re.search(r'\b' + re.escape(entity.lower()) + r'\b', content_lower)
SearchWord(entity, content_lower) ==
    LET p == lower(entity)
        Word(i) == i >= 1 /\ i <= Len(content_lower) /\ IsWordChar(content_lower[i])
    IN  \E i \in 1..(Len(content_lower) - Len(p) + 1) :
           /\ SubSeq(content_lower, i, i + Len(p) - 1) = p
           /\ Word(i - 1) # IsWordChar(p[1])
           /\ Word(i + Len(p)) # IsWordChar(p[Len(p)])

\* _extract_domain_entities, lines 362-378: the classes of which a token is
\* found, each with its found tokens
extract_domain_entities(content) ==
    LET content_lower == lower(content)
        found(t) == SelectSeq(DomainEntities(t),
                              LAMBDA entity : SearchWord(entity, content_lower))
        types == {entity_types[i] : i \in DOMAIN entity_types}
    IN  [t \in {u \in types : found(u) # <<>>} |-> found(t)]

\* the candidate sections of _analyze_dld_structure, lines 192-204, their
\* entities not yet passed through list(set(...))
FoundSections(content) ==
    extract_sections_by_headers(content)
    \o extract_sections_by_keywords(content)
    \o extract_sections_by_content(content)

(***************************************************************************)
(* Repeated analyses by one ContextValidationAgent in one process          *)
(***************************************************************************)
MaxLines == 2
MaxRuns == 3

\* lines of which the documents are made: a markdown header, a line with
\* two entities and a keyword, and a line long enough for the content-based
\* method
DocumentLines == {
    <<"#", " ", "A", "p", "i">>,
    <<"A", "M", "F", " ", "U", "P", "F", " ", "a", "c", "c", "e", "s", "s", " ", "k", "e", "y">>,
    <<"d", "e", "p", "l", "o", "y", "m", "e", "n", "t", " ",
      "c", "o", "n", "f", "i", "g", "u", "r", "a", "t", "i", "o", "n", " ",
      "o", "f", " ", "t", "h", "e", " ", "A", "M", "F", " ",
      "i", "n", " ", "e", "a", "c", "h", " ", "o", "f", " ", "t", "h", "e", " ",
      "s", "i", "t", "e", "s">> }

Texts == {JoinLines(ls) : ls \in SeqsUpTo(DocumentLines, MaxLines)}

\* the candidate sections and the domain entities of every document, the
\* pure parts of _analyze_dld_structure; @@ makes a table of the function,
\* so that no document is analysed more than once
FoundIn == [content \in Texts |-> FoundSections(content)] @@ <<>>
DomainEntitiesIn == [content \in Texts |-> extract_domain_entities(content)] @@ <<>>

\* list(set(...)) of each list of L, lines 386-395: one listing per list,
\* the remembered one where the process has listed it before
Listings(L) ==
    {f \in [L -> UNION {ListOfSet(l) : l \in L}] : \A l \in L : f[l] \in ListOfSet(l)}

\* the value _analyze_dld_structure returns, lines 212-220
Structure(merged_sections, content) ==
    LET found_entities_ == DomainEntitiesIn[content]
    IN  [sections        |-> merged_sections,
         domain_entities |-> found_entities_,
         document_stats  |-> [total_length   |-> Len(content),
                              sections_found |-> Len(merged_sections),
                              entities_found |-> Cardinality(DOMAIN found_entities_)]]

\* the AttributeError of _merge_sections leaves _analyze_dld_structure
AnalysisRaised == [raised |-> "AttributeError"]

InitRepeat ==
    /\ DocIdle /\ AgentIdle
    /\ SimIdle /\ QualIdle /\ OrchIdle /\ CovIdle /\ ScanIdle /\ CompIdle /\ LastIdle

\* _analyze_dld_structure, lines 192-204: the three methods list their
\* sections, each with list(set(...)) of its entities; the last analysis of
\* the bound is a repetition of an earlier document
StartAnalysis ==
    /\ mstatus = "idle"
    /\ Len(runs) < MaxRuns
    /\ \E content \in Texts :
          /\ Len(runs) = MaxRuns - 1 =>
                \E i \in DOMAIN runs : runs[i].dld_content = content
          /\ LET found == FoundIn[content]
                 lists == {found[i].extracted_entities : i \in DOMAIN found}
             IN  \E listed \in Listings(lists) :
                    /\ sections' = [i \in DOMAIN found |->
                                       [found[i] EXCEPT !.extracted_entities = listed[@]]]
                    /\ set_lists' = listed @@ set_lists
                    /\ mstatus' = IF found = <<>> THEN "returned" ELSE "running"
          /\ document' = content
    /\ merged' = <<>>
    /\ mi' = 1
    /\ UNCHANGED <<domain_entities, vresult, runs, simVars, qualVars, orchVars,
                   covVars, scanVars, compVars, lastVars>>

\* _analyze_dld_structure, lines 207-220: the merged sections, the domain
\* entities and the statistics are returned, or the exception of the merge
\* is passed on; the locals of the call are dropped
FinishAnalysis ==
    /\ mstatus \in {"returned", "raised"}
    /\ runs' = Append(runs,
                      [dld_content |-> document,
                       structure   |-> IF mstatus = "raised" THEN AnalysisRaised
                                       ELSE Structure(Values(merged), document)])
    /\ sections' = <<>>
    /\ merged' = <<>>
    /\ mi' = 1
    /\ mstatus' = "idle"
    /\ document' = <<>>
    /\ UNCHANGED <<domain_entities, vresult, set_lists, simVars, qualVars, orchVars,
                   covVars, scanVars, compVars, lastVars>>

NextRepeat == StartAnalysis \/ MergeSection \/ FinishAnalysis
SpecRepeat == InitRepeat /\ [][NextRepeat]_vars

GoodPractices == 5
ProblematicPatterns == 4

\* if found: score += amount
AddIf(found, score, amount) == IF found THEN FAdd(score, amount) ELSE score

\* if found: score *= factor
MulIf(found, score, factor) == IF found THEN FMul(score, factor) ELSE score

\* _assess_prompt_structure, lines 665-689, from the numbers of matches
assess_prompt_structure(sections_found, lists, code_blocks, numbered_items) ==
    FMin(AddIf(numbered_items >= 3,
               AddIf(code_blocks >= 1,
                     AddIf(lists >= 3,
                           AddIf(sections_found >= 3, FZero, F0_3),
                           F0_2),
                     F0_2),
               F0_3),
         FOne)

\* _assess_actionable_instructions, lines 691-717, from the numbers of
\* verbs, deliverable patterns and constraint indicators found
assess_actionable_instructions(verb_count, deliverables, constraints) ==
    FAdd(FAdd(FAdd(FZero, FMin(FDiv(FFromInt(verb_count), FFromInt(5)), F0_4)),
              FMin(FDiv(FFromInt(deliverables), FFromInt(3)), F0_3)),
         FMin(FDiv(FFromInt(constraints), FFromInt(2)), F0_3))

\* _verify_cursor_ai_compatibility, lines 351-393, from the three part
\* scores; the penalty of line 364 falls on what score holds then
CompatibilityOf(problematic, practice_score, structure_score, actionable_score) ==
    [score            |-> FAdd(FAdd(MulIf(problematic,
                                          FAdd(FZero, FMul(practice_score, F0_4)),
                                          F0_7),
                                    FMul(structure_score, F0_3)),
                               FMul(actionable_score, F0_3)),
     practice_score   |-> practice_score,
     structure_score  |-> structure_score,
     actionable_score |-> actionable_score]

\* _verify_cursor_ai_compatibility, lines 339-393: the score of the
\* assessment
verify_cursor_ai_compatibility(a) ==
    CompatibilityOf(a.problematic_patterns_found > 0,
                    FMin(FDiv(FFromInt(a.good_practices_found),
                              FFromInt(GoodPractices)), FOne),
                    assess_prompt_structure(a.sections_found, a.lists,
                                            a.code_blocks, a.numbered_items),
                    assess_actionable_instructions(a.verb_count,
                                                   a.deliverables, a.constraints))

\* prompts with every number of good practices, without and with
\* problematic patterns, with few and many structural marks
InitCompat ==
    /\ \E g \in 0..GoodPractices, b \in {0, 1, ProblematicPatterns},
          h \in {0, 3}, l \in {0, 3}, c \in {0, 1}, n \in {0, 3},
          v \in {0, 2, 7}, d \in {0, 3}, k \in {0, 1, 4} :
          fn_args = [good_practices_found       |-> g,
                     problematic_patterns_found |-> b,
                     sections_found             |-> h,
                     lists                      |-> l,
                     code_blocks                |-> c,
                     numbered_items             |-> n,
                     verb_count                 |-> v,
                     deliverables               |-> d,
                     constraints                |-> k]
    /\ fn_result = NoResult
    /\ SimIdle /\ DocIdle /\ QualIdle /\ OrchIdle
    /\ CovIdle /\ ScanIdle /\ CompIdle /\ AgentIdle /\ LifeIdle

VerifyCompatibility ==
    /\ fn_result = NoResult
    /\ fn_result' = verify_cursor_ai_compatibility(fn_args)
    /\ UNCHANGED <<fn_args, simVars, docVars, qualVars, orchVars,
                   covVars, scanVars, compVars, agentVars, lifeVars>>

NextCompat == VerifyCompatibility
SpecCompat == InitCompat /\ [][NextCompat]_vars

\* C21: the compatibility score is 0.4 x practice + 0.3 x structure + 0.3 x
\* actionable, and with a problematic pattern in the prompt the whole of this
\* blend is multiplied by 0.7
C21_WholeBlendPenalised ==
    fn_result # NoResult =>
        LET blend == FAdd(FAdd(FAdd(FZero, FMul(fn_result.practice_score, F0_4)),
                               FMul(fn_result.structure_score, F0_3)),
                          FMul(fn_result.actionable_score, F0_3))
        IN  fn_result.score = IF fn_args.problematic_patterns_found > 0
                              THEN FMul(blend, F0_7) ELSE blend

(***************************************************************************)
(* CodeQualityAgent._prompt_addresses_section on its own                   *)
(***************************************************************************)
\* lines 554-555: the words of the title and the first ten of the content,
\* those longer than three characters, lower-cased
SectionKeywordsOf(section_title, section_content) ==
    LET content_words == split(section_content)
        words == split(section_title)
                     \o SubSeq(content_words, 1, Min(10, Len(content_words)))
        long  == SelectSeq(words, LAMBDA word : Len(word) > 3)
    IN  [i \in DOMAIN long |-> lower(long[i])]

\* line 558: the keywords, counted with repetition, that the lower-cased
\* prompt contains
KeywordMatches(prompt, keywords) ==
    Cardinality({i \in DOMAIN keywords : IsSubstring(keywords[i], lower(prompt))})

\* _prompt_addresses_section, lines 551-560
prompt_addresses_section(prompt, section_title, section_content) ==
    LET keywords == SectionKeywordsOf(section_title, section_content)
        matches  == KeywordMatches(prompt, keywords)
    IN  FGe(FFromInt(matches),
            FMax(FFromInt(2), FMul(FFromInt(Len(keywords)), F0_3)))

MaxRepeat == 4

RECURSIVE Repeated(_, _)
Repeated(word, n) == IF n = 0 THEN <<>> ELSE word \o <<" ">> \o Repeated(word, n - 1)

\* sections of up to 4 x MaxRepeat words under two titles, and four prompts
InitAddr ==
    /\ \E n1 \in 0..MaxRepeat, n2 \in 0..MaxRepeat, n3 \in 0..MaxRepeat, n4 \in 0..MaxRepeat,
          section_title \in {<<>>, <<"A", "c", "c", "e", "s", "s", " ", "K", "e", "y", "s">>},
          prompt \in {<<>>,
                      <<"a", "u", "t", "h", "e", "n", "t", "i", "c", "a", "t", "i", "o", "n">>,
                      <<"T", "h", "e", " ", "C", "i", "p", "h", "e", "r">>,
                      <<"a", "u", "t", "h", " ", "c", "i", "p", "h", "e", "r", " ",
                        "k", "e", "y", "s">>} :
          fn_args = [prompt          |-> prompt,
                     section_title   |-> section_title,
                     section_content |-> Repeated(<<"A", "u", "t", "h">>, n1)
                                         \o Repeated(<<"t", "h", "e">>, n2)
                                         \o Repeated(<<"c", "i", "p", "h", "e", "r">>, n3)
                                         \o Repeated(<<"t", "o", "k", "e", "n", "s">>, n4)]
    /\ fn_result = NoResult
    /\ SimIdle /\ DocIdle /\ QualIdle /\ OrchIdle
    /\ CovIdle /\ ScanIdle /\ CompIdle /\ AgentIdle /\ LifeIdle

PromptAddressesSection ==
    /\ fn_result = NoResult
    /\ fn_result' = [addressed |-> prompt_addresses_section(
                                       fn_args.prompt, fn_args.section_title,
                                       fn_args.section_content)]
    /\ UNCHANGED <<fn_args, simVars, docVars, qualVars, orchVars,
                   covVars, scanVars, compVars, agentVars, lifeVars>>

NextAddr == PromptAddressesSection
SpecAddr == InitAddr /\ [][NextAddr]_vars

\* C22: a section with keywords counts as addressed exactly when the prompt
\* contains at least 30% of its keywords or at least two of them, either
\* being enough
C22_EitherSuffices ==
    fn_result # NoResult =>
        LET keywords == SectionKeywordsOf(fn_args.section_title, fn_args.section_content)
            matches  == KeywordMatches(fn_args.prompt, keywords)
        IN  Len(keywords) >= 1 =>
                (fn_result.addressed <=>
                    (10 * matches >= 3 * Len(keywords) \/ matches >= 2))

(***************************************************************************)
(* CodeQualityAgent.validate_prompt from the prompt's counts: the six      *)
(* assessments, the weighted mean and the quality gate of process_dld.     *)
(* The prompt is given by what each assessment counts in it.               *)
(***************************************************************************)
\* a faulty variant of _validate_5g_terminology: a prompt without acronyms
\* gets the full score
Full_validate_5g_terminology(total_terms, correct_usage) ==
    IF total_terms = 0 THEN FOne
    ELSE FDiv(FFromInt(correct_usage), FFromInt(total_terms))

\* _validate_5g_terminology, lines 583-600
validate_5g_terminology(total_terms, correct_usage) ==
    IF total_terms = 0 THEN F0_5
    ELSE FDiv(FFromInt(correct_usage), FFromInt(total_terms))

\* score *= factor, once for each of n offending values
RECURSIVE Discounted(_, _, _)
Discounted(score, factor, n) ==
    IF n = 0 THEN score ELSE Discounted(FMul(score, factor), factor, n - 1)

\* _validate_technical_specifications, lines 619-643
validate_technical_specifications(high_values) == Discounted(FOne, F0_9, high_values)

\* _validate_performance_requirements, lines 645-663
validate_performance_requirements(low_latencies, high_reliabilities) ==
    Discounted(Discounted(FOne, F0_8, low_latencies), F0_9, high_reliabilities)

\* _confirm_technical_accuracy, lines 300-337, from the terminology score
AccuracyOf(a, terminology_score) ==
    [score             |-> FMul(FMul(MulIf(a.consistency_issues > 0,
                                           FMul(F0_8, terminology_score), F0_8),
                                     validate_technical_specifications(a.high_values)),
                                validate_performance_requirements(
                                    a.low_latencies, a.high_reliabilities)),
     terminology_score |-> terminology_score]

\* _confirm_technical_accuracy, lines 284-337
confirm_technical_accuracy(a) ==
    AccuracyOf(a, validate_5g_terminology(a.total_terms, a.correct_usage))

\* a faulty variant of _assess_clarity: three headings add 0.2
Generous_assess_clarity(long_sentences, headings, jargon_count) ==
    MulIf(jargon_count > 10,
          AddIf(headings >= 3, MulIf(long_sentences > 0, F0_8, F0_9), F0_2),
          F0_95)

\* _assess_clarity, lines 395-430
assess_clarity(long_sentences, headings, jargon_count) ==
    MulIf(jargon_count > 10,
          AddIf(headings >= 3, MulIf(long_sentences > 0, F0_8, F0_9), F0_1),
          F0_95)

\* min(count / expected, 1.0)
Normalized(count, expected) == FMin(FDiv(FFromInt(count), FFromInt(expected)), FOne)

\* _assess_specificity, lines 432-480
assess_specificity(technical_details, impl_guidance, examples_found) ==
    FAdd(FAdd(FAdd(FZero, FMul(Normalized(technical_details, 20), F0_5)),
              FMul(Normalized(impl_guidance, 6), F0_3)),
         FMul(Normalized(examples_found, 3), F0_2))

\* _assess_actionability, lines 482-533
assess_actionability(actions_found, deliverables, steps) ==
    FAdd(FAdd(FAdd(FZero, FMul(Normalized(actions_found, 5), F0_4)),
              FMul(Normalized(deliverables, 3), F0_3)),
         FMul(Normalized(steps, 5), F0_3))

\* validate_prompt, lines 170-206: the overall score of the six assessments
\* and the dict that is returned with them
AssessedResult(detailed, threshold) ==
    QualityResult(calculate_overall_score(detailed), threshold)
        @@ [detailed_scores |-> detailed]

\* validate_prompt, lines 150-216, once _verify_prompt_completeness has
\* returned or raised: an exception ends the call at lines 208-216
ValidationAfter(a, completeness) ==
    IF "raised" \in DOMAIN completeness
    THEN [success           |-> FALSE,
          error             |-> completeness,
          quality_score     |-> FZero,
          validation_result |-> None]
    ELSE AssessedResult(
             <<completeness.score,
               confirm_technical_accuracy(a).score,
               verify_cursor_ai_compatibility(a).score,
               assess_clarity(a.long_sentences, a.sections_found, a.total_terms),
               assess_specificity(a.found_counts[1] + a.found_counts[2]
                                      + a.found_counts[3],
                                  a.impl_guidance, a.examples_found),
               assess_actionability(a.actions_found, a.clear_deliverables,
                                    a.numbered_items)>>,
             a.quality_threshold)

\* validate_prompt, lines 143-216
ScoredValidation(a) ==
    ValidationAfter(a, verify_prompt_completeness(a.found, a.covered_requirements,
                                                  a.total_requirements, a.found_counts))

\* the prompts and reference contexts of the check, by their counts
TermCounts == {<<0, 0>>, <<1, 1>>, <<2, 1>>, <<11, 11>>}
IssueCounts == {<<0, 0, 0, 0>>, <<1, 0, 1, 0>>, <<0, 1, 0, 1>>}
RequirementCounts == {<<0, 0>>, <<0, 1>>, <<1, 1>>}
PracticeCounts == {<<5, 0, 0>>, <<0, 1, 1>>}
GateThresholds == {F0_8, MaxOverall, F0_95}

InitScore ==
    /\ \E t \in TermCounts, i \in IssueCounts, r \in RequirementCounts,
          p \in PracticeCounts, f \in {{}, Range(completeness_sections)},
          rich \in {0, 1}, th \in GateThresholds :
          fn_args = [found                      |-> f,
                     covered_requirements       |-> r[1],
                     total_requirements         |-> r[2],
                     found_counts               |-> <<t[2] + 40 * rich, 0, i[2] + i[3] + i[4]>>,
                     total_terms                |-> t[1],
                     correct_usage              |-> t[2],
                     consistency_issues         |-> i[1],
                     high_values                |-> i[2],
                     low_latencies              |-> i[3],
                     high_reliabilities         |-> i[4],
                     good_practices_found       |-> p[1],
                     problematic_patterns_found |-> p[2],
                     sections_found             |-> 3 * rich,
                     lists                      |-> 3 * rich,
                     code_blocks                |-> rich,
                     numbered_items             |-> 5 * rich,
                     verb_count                 |-> 2 * rich,
                     actions_found              |-> 5 * rich,
                     deliverables               |-> 3 * rich,
                     clear_deliverables         |-> 3 * rich,
                     constraints                |-> rich,
                     long_sentences             |-> p[3],
                     impl_guidance              |-> 6 * rich,
                     examples_found             |-> 3 * rich,
                     quality_threshold          |-> th]
    /\ fn_result = NoResult
    /\ SimIdle /\ DocIdle /\ QualIdle /\ OrchIdle
    /\ CovIdle /\ ScanIdle /\ CompIdle /\ AgentIdle /\ LifeIdle

\* validate_prompt and then line 171 of process_dld: the quality gate
ValidateScored ==
    /\ fn_result = NoResult
    /\ \E quality_result \in {ScoredValidation(fn_args)} :
          fn_result' = [quality_result |-> quality_result,
                        stopped |-> BelowThreshold(quality_result,
                                                   fn_args.quality_threshold)]
    /\ UNCHANGED <<fn_args, simVars, docVars, qualVars, orchVars,
                   covVars, scanVars, compVars, agentVars, lifeVars>>

NextScore == ValidateScored
SpecScore == InitScore /\ [][NextScore]_vars

Scored == fn_result # NoResult /\ fn_result.quality_result.success

\* C23 as stated: the overall quality score is at most 0.94, technical
\* accuracy at most 0.8 and clarity at most 0.9, so that a call whose
\* quality threshold is above 0.94 never passes the quality gate
C23_AtMost094 ==
    Scored =>
        LET q == fn_result.quality_result
        IN  /\ FGe(F0_8, q.detailed_scores[2])
            /\ FGe(F0_9, q.detailed_scores[4])
            /\ FGe(F0_94, q.quality_score)
            /\ FGt(fn_args.quality_threshold, F0_94) => fn_result.stopped

\* C23 amended: the overall quality score is at most 0.9400000000000001, the
\* float that the weighted mean of the largest scores rounds to; a call whose
\* quality threshold is above that never passes the quality gate
C23_AtMostMaxOverall ==
    Scored =>
        LET q == fn_result.quality_result
        IN  /\ FGe(F0_8, q.detailed_scores[2])
            /\ FGe(F0_9, q.detailed_scores[4])
            /\ FGe(MaxOverall, q.quality_score)
            /\ FGt(fn_args.quality_threshold, MaxOverall)
                   => fn_result.stopped /\ ~q.validation_result.is_valid

\* every assessment at its largest, and a threshold above the score
C23_Witness ==
    /\ Scored
    /\ fn_result.quality_result.detailed_scores = <<FOne, F0_8, FOne, F0_9, FOne, FOne>>
    /\ fn_result.quality_result.quality_score = MaxOverall
    /\ fn_args.quality_threshold = F0_95
    /\ fn_result.stopped

\* C24: validate_prompt with a reference context whose section list is empty
\* or absent still returns success = true with six metric scores, the
\* completeness score coming from section presence and domain coverage only
C24_EmptyReferenceSucceeds ==
    fn_result # NoResult /\ fn_args.total_requirements = 0 =>
        LET q == fn_result.quality_result
        IN  /\ q.success
            /\ Len(q.detailed_scores) = 6
            /\ q.detailed_scores[1]
                   = FMin(FAdd(SectionScoreFrom(fn_args.found, 1, FZero),
                               FMul(assess_domain_coverage(fn_args.found_counts), F0_2)),
                          FOne)

(***************************************************************************)
(* _verify_consistency on documents of up to MaxScanned sections, each     *)
(* with none, one or all three of the pattern pairs in its content         *)
(***************************************************************************)
MaxScanned == 4

ScannedContents ==
    LET p == contradiction_patterns
    IN  {<<p[2][1]>>,
         <<p[1][1]>>,
         <<p[2][1], p[2][2]>>,
         <<p[1][1], p[2][1], p[2][2], p[3][2]>>}

ScanTitles == <<<<"A">>, <<"B">>, <<"C">>, <<"D">>>>

InitTally ==
    /\ \E cs \in SeqsUpTo(ScannedContents, MaxScanned) :
          /\ cs # <<>>
          /\ scan_sections = [i \in 1..Len(cs) |-> ScanSection(ScanTitles[i], cs[i])]
    /\ scan_result = NoResult
    /\ SimIdle /\ DocIdle /\ QualIdle /\ OrchIdle /\ CovIdle /\ CompIdle /\ AgentIdle /\ LastIdle

SpecTally == InitTally /\ [][NextScan]_vars

\* the pattern pairs of which both patterns occur in a text
BothOccurIn(text) ==
    {k \in DOMAIN contradiction_patterns :
        /\ MatchesAt(contradiction_patterns[k][1], text) # {}
        /\ MatchesAt(contradiction_patterns[k][2], text) # {}}

\* the sections named by the first n messages
RECURSIVE TitlesOf(_, _)
TitlesOf(messages, n) ==
    IF n = 0 THEN <<>> ELSE Append(TitlesOf(messages, n - 1), messages[n][2])

\* every section's title, once for each pattern pair in its content
RECURSIVE PairTitlesFrom(_, _)
PairTitlesFrom(secs, i) ==
    IF i > Len(secs) THEN <<>>
    ELSE [j \in 1..Cardinality(BothOccurIn(secs[i].content)) |-> secs[i].title]
         \o PairTitlesFrom(secs, i + 1)

\* C25: the scan emits, for every section, exactly one message per pattern
\* pair of which both patterns occur in the section's content; the
\* consistency score is max(0, 1 - 0.1 * messages): within [0, 1], and 0
\* from ten messages on
C25_OneMessagePerPair ==
    scan_result # NoResult =>
        LET messages == scan_result.inconsistencies
            n        == Len(messages)
            score    == scan_result.consistency_score
        IN  /\ TitlesOf(messages, n) = PairTitlesFrom(scan_sections, 1)
            /\ \A j \in 1..n : messages[j][1] = "Potential contradiction in section"
            /\ score = FMax(FZero, FSub(FOne, FMul(FFromInt(n), F0_1)))
            /\ FGe(score, FZero) /\ FGe(FOne, score)
            /\ (n >= 10 <=> score = FZero)
            /\ (n = 0 <=> score = FOne)

\* four sections with all three pairs: twelve messages and a score of 0
C25_Witness ==
    /\ scan_result # NoResult
    /\ Len(scan_sections) = 4
    /\ Len(scan_result.inconsistencies) = 12
    /\ scan_result.consistency_score = FZero

(***************************************************************************)
(* _classify_section_type on its own: a title and up to MaxWords words of  *)
(* content                                                                 *)
(***************************************************************************)
MaxWords == 3

ClassifiedTitles == {<<>>, <<"S", "e", "c", "u", "r", "i", "t", "y">>, <<"K", "P", "I">>}

ClassifiedWords == {<<"T", "o", "p", "o", "l", "o", "g", "y">>,
                    <<"c", "o", "n", "s", "t", "r", "a", "i", "n", "t", "s">>,
                    <<"a", "p", "i">>,
                    <<"k", "p", "i">>,
                    <<"a", "c", "c", "e", "s", "s">>,
                    <<"d", "e", "p", "l", "o", "y", "m", "e", "n", "t">>,
                    <<"r", "a", "p", "i", "d">>}

RECURSIVE JoinWords(_)
JoinWords(ws) ==
    IF ws = <<>> THEN <<>>
    ELSE IF Len(ws) = 1 THEN ws[1]
    ELSE ws[1] \o <<" ">> \o JoinWords(Tail(ws))

InitClassify ==
    /\ \E t \in ClassifiedTitles, ws \in SeqsUpTo(ClassifiedWords, MaxWords) :
          fn_args = [title |-> t, content |-> JoinWords(ws)]
    /\ fn_result = NoResult
    /\ SimIdle /\ DocIdle /\ QualIdle /\ OrchIdle
    /\ CovIdle /\ ScanIdle /\ CompIdle /\ AgentIdle /\ LifeIdle

ClassifySection ==
    /\ fn_result = NoResult
    /\ fn_result' = [section_type |-> classify_section_type(fn_args.title,
                                                            fn_args.content)]
    /\ UNCHANGED <<fn_args, simVars, docVars, qualVars, orchVars,
                   covVars, scanVars, compVars, agentVars, lifeVars>>

NextClassify == ClassifySection
SpecClassify == InitClassify /\ [][NextClassify]_vars

\* the occurrences of the keywords of a type in title and content
RECURSIVE OccurrencesFrom(_, _, _)
OccurrencesFrom(keywords, s, i) ==
    IF i > Len(keywords) THEN 0
    ELSE Cardinality(MatchesAt(keywords[i], s)) + OccurrencesFrom(keywords, s, i + 1)

KeywordOccurrences(name, title, content) ==
    OccurrencesFrom(SectionKeywords(name), title \o <<" ">> \o content, 1)

Declared(name) == CHOOSE i \in DOMAIN required_sections : required_sections[i] = name

\* C26: the classifier returns the required type with the highest
\* keyword-occurrence count over title and content, the first declared of
\* the types that tie, and 'general' when every count is zero
C26_HighestCountFirstDeclared ==
    fn_result # NoResult =>
        LET count(n) == KeywordOccurrences(n, fn_args.title, fn_args.content)
            r        == fn_result.section_type
        IN  IF \A n \in RequiredNames : count(n) = 0
            THEN r = "general"
            ELSE /\ r \in RequiredNames
                 /\ \A n \in RequiredNames :
                       /\ count(n) <= count(r)
                       /\ Declared(n) < Declared(r) => count(n) < count(r)

\* "api kpi access": interfaces, performance and security tie at one, and
\* interfaces is declared first
C26_Witness ==
    /\ fn_result # NoResult
    /\ KeywordOccurrences("interfaces", fn_args.title, fn_args.content) = 1
    /\ KeywordOccurrences("performance", fn_args.title, fn_args.content) = 1
    /\ KeywordOccurrences("security", fn_args.title, fn_args.content) = 1
    /\ fn_result.section_type = "interfaces"

(***************************************************************************)
(* _confirm_technical_accuracy on its own: the prompt is given by its      *)
(* acronyms, its consistency issues and its offending values               *)
(***************************************************************************)
MaxOffending == 2

AcronymCounts == {<<0, 0>>, <<1, 0>>, <<1, 1>>, <<2, 1>>, <<3, 3>>, <<12, 11>>}

InitAccuracy ==
    /\ \E t \in AcronymCounts, c \in {0, 1}, h \in 0..MaxOffending,
          l \in 0..MaxOffending, r \in 0..MaxOffending :
          fn_args = [total_terms        |-> t[1],
                     correct_usage      |-> t[2],
                     consistency_issues |-> c,
                     high_values        |-> h,
                     low_latencies      |-> l,
                     high_reliabilities |-> r]
    /\ fn_result = NoResult
    /\ SimIdle /\ DocIdle /\ QualIdle /\ OrchIdle
    /\ CovIdle /\ ScanIdle /\ CompIdle /\ AgentIdle /\ LifeIdle

ConfirmAccuracy ==
    /\ fn_result = NoResult
    /\ fn_result' = confirm_technical_accuracy(fn_args)
    /\ UNCHANGED <<fn_args, simVars, docVars, qualVars, orchVars,
                   covVars, scanVars, compVars, agentVars, lifeVars>>

NextAccuracy == ConfirmAccuracy
SpecAccuracy == InitAccuracy /\ [][NextAccuracy]_vars

\* score * factors[i] * ... * factors[Len(factors)], from the left
RECURSIVE ProductFrom(_, _, _)
ProductFrom(score, factors, i) ==
    IF i > Len(factors) THEN score
    ELSE ProductFrom(FMul(score, factors[i]), factors, i + 1)

\* a factor, n times
Repeat(factor, n) == [i \in 1..n |-> factor]

\* C27: technical accuracy is 0.8 times the terminology factor times each
\* discount; every factor is at most 1 and the score never above 0.8; with no
\* acronym the terminology factor is 0.5 and the score before the other
\* discounts 0.4
C27_AccuracyIsDiscountedBase ==
    fn_result # NoResult =>
        LET a           == fn_args
            terminology == fn_result.terminology_score
            consistency == IF a.consistency_issues > 0 THEN <<F0_8>> ELSE <<>>
            accuracy    == ProductFrom(FOne, Repeat(F0_9, a.high_values), 1)
            realism     == ProductFrom(FOne, Repeat(F0_8, a.low_latencies)
                                                 \o Repeat(F0_9, a.high_reliabilities), 1)
            factors     == <<terminology>> \o consistency \o <<accuracy, realism>>
        IN  /\ fn_result.score = ProductFrom(F0_8, factors, 1)
            /\ \A i \in DOMAIN factors : FGe(FOne, factors[i]) /\ FGe(factors[i], FZero)
            /\ FGe(F0_8, fn_result.score)
            /\ a.total_terms > 0 =>
                   terminology = FDiv(FFromInt(a.correct_usage), FFromInt(a.total_terms))
            /\ a.total_terms = 0 =>
                   /\ terminology = F0_5
                   /\ ProductFrom(F0_8, <<terminology>>, 1) = F0_4
                   /\ Len(factors) = 3 /\ accuracy = FOne /\ realism = FOne
                          => fn_result.score = F0_4

\* a prompt without acronyms and without anything to discount scores 0.4
C27_Witness ==
    /\ fn_result # NoResult
    /\ fn_args.total_terms = 0
    /\ fn_args.consistency_issues = 0 /\ fn_args.high_values = 0
    /\ fn_args.low_latencies = 0 /\ fn_args.high_reliabilities = 0
    /\ fn_result.terminology_score = F0_5
    /\ fn_result.score = F0_4

(***************************************************************************)
(* _extract_sections_by_headers on its own: documents of up to             *)
(* MaxHeaderLines lines, each a header of one of the four shapes, an       *)
(* underline or a line of body                                             *)
(***************************************************************************)
MaxHeaderLines == 4

HeaderLines == {<<"#", " ", "I", "n", "t", "r", "o">>, <<"2", ".", " ", "S", "c", "o", "p", "e">>, <<"O", "V", "E", "R", "V", "I", "E", "W">>, <<"D", "e", "s", "i", "g", "n">>, <<"=", "=", "=", "=">>, <<"-", "-", "-", "-">>, <<"b", "o", "d", "y">>}

InitHeaders ==
    /\ \E ls \in SeqsUpTo(HeaderLines, MaxHeaderLines) :
          fn_args = [content |-> JoinLines(ls)]
    /\ fn_result = NoResult
    /\ SimIdle /\ DocIdle /\ QualIdle /\ OrchIdle
    /\ CovIdle /\ ScanIdle /\ CompIdle /\ AgentIdle /\ LifeIdle

ExtractByHeaders ==
    /\ fn_result = NoResult
    /\ fn_result' = [sections |-> extract_sections_by_headers(fn_args.content)]
    /\ UNCHANGED <<fn_args, simVars, docVars, qualVars, orchVars,
                   covVars, scanVars, compVars, agentVars, lifeVars>>

NextHeaders == ExtractByHeaders
SpecHeaders == InitHeaders /\ [][NextHeaders]_vars

\* a line of "=" or "-" only
IsUnderline(line) == line # <<>> /\ \A i \in DOMAIN line : line[i] \in {"=", "-"}

\* the title of the header at line i, of any of the four shapes, or <<>>
TitleAt(lines, i) ==
    LET line == strip(lines[i])
    IN  IF IsUnderline(line) THEN <<>>
        ELSE IF HeaderText(line) # <<>> THEN HeaderText(line)
        ELSE IF line # <<>> /\ i < Len(lines) /\ IsUnderline(strip(lines[i + 1]))
        THEN line
        ELSE <<>>

\* the underline of the underline-style header at line i - 1
IsRuleAt(lines, i) ==
    /\ i > 1 /\ IsUnderline(strip(lines[i]))
    /\ TitleAt(lines, i - 1) # <<>> /\ HeaderText(strip(lines[i - 1])) = <<>>

\* title and body of every header of the four shapes that has a body
RECURSIVE BodiesFrom(_, _, _, _)
BodiesFrom(lines, i, title, body) ==
    LET saved == IF title # <<>> /\ body # <<>>
                 THEN <<[title |-> title, content |-> JoinLines(body)]>> ELSE <<>>
    IN  IF i > Len(lines) THEN saved
        ELSE IF TitleAt(lines, i) # <<>>
        THEN saved \o BodiesFrom(lines, i + 1, TitleAt(lines, i), <<>>)
        ELSE IF IsRuleAt(lines, i) \/ title = <<>>
        THEN BodiesFrom(lines, i + 1, title, body)
        ELSE BodiesFrom(lines, i + 1, title, Append(body, strip(lines[i])))

\* C28: the header strategy recognises hash-prefixed, numeric-prefixed,
\* all-caps and underline-style headers (a title line followed by a line of
\* "=" or "-"), and on each recognised header the body accumulated under the
\* previous header becomes a section with confidence 0.8
C28_FourShapesRecognised ==
    fn_result # NoResult =>
        LET expected == BodiesFrom(SplitLines(fn_args.content), 1, <<>>, <<>>)
            found    == fn_result.sections
        IN  /\ Len(found) = Len(expected)
            /\ \A k \in DOMAIN found :
                  /\ found[k].title = expected[k].title
                  /\ found[k].content = expected[k].content
                  /\ found[k].confidence = F0_8

\* C28 for the three shapes that a single line shows
C28_ThreeShapesRecognised ==
    /\ fn_result # NoResult
    /\ \A i \in DOMAIN SplitLines(fn_args.content) :
          ~IsRuleAt(SplitLines(fn_args.content), i)
    => C28_FourShapesRecognised

(***************************************************************************)
(* MasterAgent from construction to shutdown: initialize agent by agent,   *)
(* one call of process_dld, and shutdown.  A sub-agent's initialize and    *)
(* shutdown return or raise.                                               *)
(***************************************************************************)
\* initialize, lines 49-77: the order in which the sub-agents are made
InitOrder == <<"context_validation_agent", "prompt_generator_agent",
               "code_quality_agent", "llm_integration", "prompt_output_agent",
               "feedback_loop">>

\* shutdown, lines 90-97
ShutdownList == <<"feedback_loop", "prompt_output_agent", "llm_integration",
                  "code_quality_agent", "prompt_generator_agent",
                  "context_validation_agent">>

\* the shutdown methods that do more than log: LLMIntegration.shutdown closes
\* the client, if there is one; FeedbackLoop is not among the sources
MayRaiseOnShutdown(agent) ==
    \/ agent = "llm_integration" /\ openai_client
    \/ agent = "feedback_loop"

InitLife == SimIdle /\ DocIdle /\ QualIdle /\ OrchIdle /\ LaterIdle

\* initialize, lines 44-84, one sub-agent at a time: the attribute is
\* assigned, then the sub-agent's initialize is awaited; an exception is
\* logged and raised again
InitializeAgent ==
    /\ init_status \in {"not called", "running"}
    /\ running = "none" /\ pc["A"] = "idle" /\ down_at = 0
    /\ LET k == Cardinality(agents) + 1
       IN  /\ agents' = agents \cup {InitOrder[k]}
           /\ \E raises \in BOOLEAN :
                 /\ init_status' = IF raises THEN "raised"
                                   ELSE IF k = Len(InitOrder) THEN "returned"
                                   ELSE "running"
                 /\ IF InitOrder[k] = "llm_integration" /\ ~raises
                    THEN \E api_key \in BOOLEAN : openai_client' = api_key
                    ELSE UNCHANGED openai_client
    /\ UNCHANGED <<pipeline_state, running, pc, call, locals, stage_log, result,
                   status, simVars, docVars, qualVars, covVars, scanVars, compVars,
                   agentVars, fnVars, down_at, down_log>>

\* process_dld, once, on an agent whose initialize is not running
ProcessOnce ==
    /\ init_status # "running" /\ down_at = 0
    /\ process_dld("A")

\* a faulty variant of Caught: the first exception ends the loop
Abort_Caught(k, raised) == IF raised THEN Len(ShutdownList) ELSE k

\* lines 101-104: the exception of a shutdown is logged, and the loop goes on
Caught(k, raised) == k

\* shutdown, lines 86-104, one entry of the list at a time
ShutdownAgent ==
    /\ init_status # "running" /\ running = "none"
    /\ down_at < Len(ShutdownList)
    /\ LET k     == down_at + 1
           agent == ShutdownList[k]
       IN  IF agent \in agents
           THEN \E raised \in {FALSE} \cup {MayRaiseOnShutdown(agent)} :
                   /\ down_log' = Append(down_log, [agent |-> agent, raised |-> raised])
                   /\ down_at' = Caught(k, raised)
           ELSE /\ down_at' = k
                /\ UNCHANGED down_log
    /\ UNCHANGED <<orchVars, simVars, docVars, qualVars, covVars, scanVars, compVars,
                   agentVars, fnVars, init_status>>

NextLife == InitializeAgent \/ ProcessOnce \/ ShutdownAgent
SpecLife == InitLife /\ [][NextLife]_vars

\* the sub-agents whose initialize has returned
Initialized ==
    IF init_status = "raised" THEN agents \ {InitOrder[Cardinality(agents)]}
    ELSE agents

InitIndex(agent) == CHOOSE i \in DOMAIN InitOrder : InitOrder[i] = agent

ShutdownReturned == down_at = Len(ShutdownList)

\* C29: shutdown attempts to shut down every initialized sub-agent exactly
\* once, in the reverse of the initialization order; an exception raised by
\* one sub-agent's shutdown does not keep the others from being shut down
\* and does not leave shutdown
C29_ShutdownReverseOrder ==
    /\ \A i, j \in DOMAIN down_log :
          i < j => InitIndex(down_log[i].agent) > InitIndex(down_log[j].agent)
    /\ ShutdownReturned =>
          \A agent \in Initialized :
              Cardinality({i \in DOMAIN down_log : down_log[i].agent = agent}) = 1
    /\ \A i \in DOMAIN down_log :
          down_log[i].raised =>
              \A agent \in Initialized :
                  InitIndex(agent) < InitIndex(down_log[i].agent) =>
                      \/ \E j \in DOMAIN down_log : j > i /\ down_log[j].agent = agent
                      \/ down_at < Len(ShutdownList) + 1 - InitIndex(agent)

\* all six sub-agents initialized; the shutdowns of the feedback loop and of
\* the model client raise, and the three sub-agents after them are shut down
C29_Witness ==
    /\ init_status = "returned"
    /\ ShutdownReturned
    /\ Len(down_log) = 6
    /\ down_log[1].raised /\ down_log[3].raised
    /\ down_log[3].agent = "llm_integration"
    /\ down_log[6].agent = "context_validation_agent"

\* C30: process_dld on a MasterAgent that was never initialized, or whose
\* initialize failed part-way, does not raise and returns a result with
\* success = false; on the agent never initialized no stage is executed
C30_UninitializedFails ==
    Done("A") /\ init_status \in {"not called", "raised"} =>
        /\ pc["A"] # "raised"
        /\ "success" \in DOMAIN result["A"]
        /\ ~result["A"].success
        /\ init_status = "not called" => stage_log["A"] = <<>>

\* C30 for the agent that was never initialized
C30_NeverInitializedFails ==
    Done("A") /\ init_status = "not called" =>
        /\ ~result["A"].success
        /\ stage_log["A"] = <<>>

====
